---- MODULE Spec2Model ----
(***************************************************************************)
(* A model of the SmartCare / T3 client library.                           *)
(*                                                                         *)
(* The repository holds three generations of the client class:             *)
(*   "t3services"  src/t3services.js      (T3Service: login, search)       *)
(*   "smartcare"   src/unnamed/part_000   (SmartCare with response-handler *)
(*                                         pairs: login, refreshTouchmap,  *)
(*                                         search, getAccount,             *)
(*                                         getStatements)                  *)
(*   "index"       src/index.js:1-346     (SmartCare with one callback:    *)
(*                                         t3login, refreshTouchmap,       *)
(*                                         search, getAccount,             *)
(*                                         getStatements, dashboard)       *)
(* A client instance is one of them (variable variant).  The transport     *)
(* (the request module) is the environment: it answers every pending       *)
(* request, in any order, with an error or with a response.                *)
(*                                                                         *)
(* JavaScript values that may have more than one type are records: UNDEF,  *)
(* NULL, Str(chars), Name(n), or an object (a record of its own            *)
(* properties).  Strings whose characters matter (header names and values, *)
(* tokens, arguments) are sequences of one-character strings.              *)
(***************************************************************************)
EXTENDS Integers, Sequences, FiniteSets, TLC

VARIABLES
    variant,   \* which generation of the class this client instance is
    auth,      \* this.auth
    actions,   \* this.actions
    menu,      \* this.menu
    endpoints, \* this.config.endpoints
    config,    \* this.config without its endpoints
    clock,     \* the wall clock read by new Date()
    calls,     \* the calls in flight: per slot, the closure of one call
    last       \* what the most recent step did (calls made, deliveries)

vars == <<variant, endpoints, config, auth, actions, menu, clock, calls, last>>

\* ---------------------------------------------------------------- bounds
MaxInFlight == 2      \* calls that may be in flight at the same time
MaxClock == 2         \* how far the wall clock may advance
MaxDashboards == 1    \* dashboard() calls that may be in flight at a time
MaxFlips == 2         \* letters of a header name that may change their case

Slots == 1..MaxInFlight

\* ------------------------------------------------------ JavaScript values
UNDEF == [t |-> "undefined"]
NULL == [t |-> "null"]
Str(chars) == [t |-> "string", s |-> chars]
Name(n) == [t |-> "name", n |-> n]
Num(n) == [t |-> "number", i |-> n]
EmptyObject == <<>>

IsStr(v) == "t" \in DOMAIN v /\ v.t = "string"
IsName(v) == "t" \in DOMAIN v /\ v.t = "name"

\* typeof v
TypeOf(v) ==
    IF "t" \notin DOMAIN v THEN "object"
    ELSE CASE v.t = "undefined" -> "undefined"
           [] v.t = "null" -> "object"
           [] v.t = "string" -> "string"
           [] v.t = "name" -> "string"
           [] v.t = "number" -> "number"
           [] OTHER -> "object"

\* !!v
Truthy(v) ==
    IF "t" \notin DOMAIN v THEN TRUE
    ELSE CASE v.t = "undefined" -> FALSE
           [] v.t = "null" -> FALSE
           [] v.t = "string" -> Len(v.s) > 0
           [] v.t = "number" -> v.i # 0
           [] OTHER -> TRUE

\* obj[k] for an object obj and a property name k
Get(obj, k) == IF k \in DOMAIN obj THEN obj[k] ELSE UNDEF

\* obj[k] = v
SetProp(obj, k, v) ==
    [x \in DOMAIN obj \cup {k} |-> IF x = k THEN v ELSE obj[x]]

\* Object.assign(target, source): source may be undefined (no body)
ObjectAssign(target, source) ==
    IF "t" \in DOMAIN source THEN target
    ELSE [k \in DOMAIN target \cup DOMAIN source |->
            IF k \in DOMAIN source THEN source[k] ELSE target[k]]

\* ------------------------------------------------------------- characters
UpperChars == <<"A","B","C","D","E","F","G","H","I","J","K","L","M",
                "N","O","P","Q","R","S","T","U","V","W","X","Y","Z">>
LowerChars == <<"a","b","c","d","e","f","g","h","i","j","k","l","m",
                "n","o","p","q","r","s","t","u","v","w","x","y","z">>

LowerChar(c) ==
    IF \E i \in DOMAIN UpperChars : UpperChars[i] = c
    THEN LowerChars[CHOOSE i \in DOMAIN UpperChars : UpperChars[i] = c]
    ELSE c

\* String.prototype.toLowerCase
ToLowerCase(s) == [i \in DOMAIN s |-> LowerChar(s[i])]

WhiteSpace == {" ", "\t"}

RECURSIVE TrimLeft(_)
TrimLeft(s) ==
    IF s # <<>> /\ Head(s) \in WhiteSpace THEN TrimLeft(Tail(s)) ELSE s

RECURSIVE TrimRight(_)
TrimRight(s) ==
    IF s # <<>> /\ s[Len(s)] \in WhiteSpace
    THEN TrimRight(SubSeq(s, 1, Len(s) - 1)) ELSE s

\* String.prototype.trim
Trim(s) == TrimRight(TrimLeft(s))

\* ------------------------------------------------------------- validation
\* lib/validate.js validateString: "" when it returns, else its message
ValidateStringError(v, argName) ==
    IF v = UNDEF \/ v = NULL THEN "Parameter was undefined or null"
    ELSE IF TypeOf(v) # "string" THEN "Parameter must be a non-empty string"
    ELSE IF Trim(v.s) = <<>> THEN "Parameter must be non-empty"
    ELSE ""

\* lib/validate.js validateNumber
ValidateNumberError(v, min, argName) ==
    IF v = UNDEF \/ v = NULL THEN "Parameter was undefined or null"
    ELSE IF TypeOf(v) # "number" THEN "Parameter must be a number"
    ELSE IF v.i < min THEN "Parameter must be at least min"
    ELSE ""

\* the first failing validation of a list of validation results
RECURSIVE FirstError(_)
FirstError(errs) ==
    IF errs = <<>> THEN ""
    ELSE IF Head(errs) # "" THEN Head(errs) ELSE FirstError(Tail(errs))

\* ----------------------------------------------------------------- header
WWW_AUTHENTICATE ==
    <<"W","W","W","-","A","u","t","h","e","n","t","i","c","a","t","e">>
T3AUTH_PREFIX == <<"t","3","a","u","t","h"," ">>

\* a lookup that compares the names as they are
InsensitiveGet_Exact(obj, propName) ==
    IF \E i \in DOMAIN obj : obj[i].name = propName
    THEN obj[CHOOSE i \in DOMAIN obj : obj[i].name = propName].value
    ELSE UNDEF

\* lib/insensitive-get.js: the first own property whose lower-cased name
\* equals the lower-cased propName; obj is the list of (name, value) pairs
\* in property order
RECURSIVE InsensitiveGet(_, _)
InsensitiveGet(obj, propName) ==
    IF obj = <<>> THEN UNDEF
    ELSE IF ToLowerCase(Head(obj).name) = ToLowerCase(propName)
         THEN Head(obj).value
         ELSE InsensitiveGet(Tail(obj), propName)

\* authHeader.match(/^T3Auth /i)
MatchesT3Auth(chars) ==
    /\ Len(chars) >= Len(T3AUTH_PREFIX)
    /\ ToLowerCase(SubSeq(chars, 1, Len(T3AUTH_PREFIX))) = T3AUTH_PREFIX

\* !authHeader || !authHeader.match(/^T3Auth /i)
ChallengeMissing(authHeader) ==
    ~Truthy(authHeader) \/ ~MatchesT3Auth(authHeader.s)

\* ------------------------------------------------------------ environment
\* errors the transport may report
TransportErrors == {"ECONNRESET", "ETIMEDOUT"}

Header(n, v) == [name |-> n, value |-> Str(v)]
OTHER_HEADER == <<"O","t","h","e","r">>
T3AUTH_AAA == <<"T","3","A","u","t","h"," ","a","a","a">>
T3AUTH_LOWER == <<"t","3","a","u","t","h"," ","b">>
BASIC_REALM == <<"B","a","s","i","c"," ","r">>

\* the header objects a first login response may carry; the challenge comes
\* under WWW-Authenticate in lower case, in the mixed case of the tests, or
\* with the case of up to MaxFlips of its letters changed
ResponseHeaders ==
    LET Flip(ch) ==
            IF \E k \in DOMAIN UpperChars : UpperChars[k] = ch
            THEN LowerChar(ch)
            ELSE UpperChars[CHOOSE k \in DOMAIN LowerChars : LowerChars[k] = ch]
        Letters == DOMAIN WWW_AUTHENTICATE \ {4}
        Casing(U) == [i \in DOMAIN WWW_AUTHENTICATE |->
                        IF i \in U THEN Flip(WWW_AUTHENTICATE[i])
                        ELSE WWW_AUTHENTICATE[i]]
    IN { <<>>,
         <<Header(OTHER_HEADER, <<"v">>)>>,
         <<Header(ToLowerCase(WWW_AUTHENTICATE), T3AUTH_AAA)>>,
         <<Header(<<"W","w","W","-","a","U","t","H","e","N","t","I","c","A","t","E">>,
                  T3AUTH_AAA)>>,
         <<Header(WWW_AUTHENTICATE, BASIC_REALM)>>,
         <<Header(OTHER_HEADER, T3AUTH_AAA),
           Header(ToLowerCase(WWW_AUTHENTICATE), T3AUTH_LOWER)>> }
       \cup {<<Header(Casing(U), T3AUTH_AAA)>> :
               U \in {V \in SUBSET Letters : Cardinality(V) <= MaxFlips}}

\* the JSON bodies a second login response may carry with status 200
TokenA == [Value |-> Str(<<"1">>), T3Token |-> Str(<<"a","a","a">>),
           AdditionalValues |-> <<>>]
TokenB == [Value |-> Str(<<"2">>), T3Token |-> Str(<<"b">>),
           AdditionalValues |-> <<"k1", "k2">>]
NoToken == [test |-> Str(<<"a">>)]
EmptyToken == [Value |-> Str(<<"1">>), T3Token |-> Str(<<>>)]
NullToken == [Value |-> Str(<<"1">>), T3Token |-> NULL]
LoginBodies == {TokenA, TokenB, NoToken, EmptyToken, NullToken}

\* the bodies a response with another status may carry
Denied == [Message |-> Str(<<"n","o">>)]
FailBodies == {UNDEF, Denied}

StatusCodes == {200, 400}

\* the arguments a caller may pass for a string parameter
GoodString == Str(<<"u","n">>)
ArgValues == {GoodString, Str(<<" ","\t">>), Str(<<>>), NULL, UNDEF, Num(1)}

\* --------------------------------------------------------------- the client
Variants == {"t3services", "smartcare", "index"}

\* the operations each generation of the class offers
Operations(v) ==
    CASE v = "t3services" -> {"login", "search"}
      [] v = "smartcare" -> {"login", "refreshTouchmap", "search",
                             "getAccount", "getStatements"}
      [] v = "index" -> {"login", "refreshTouchmap", "search",
                         "getAccount", "getStatements", "dashboard",
                         "dashboardLogin"}

\* a getter that only asks whether an AuthToken is stored
IsAuthenticated_Stored(a) == Truthy(a)

\* get isAuthenticated
IsAuthenticated(a) ==
    /\ Truthy(a)
    /\ Truthy(Get(a, "T3Token"))
    /\ Len(Get(a, "T3Token").s) > 0

\* a call slot nobody uses
FreeCall ==
    [op |-> "none", pc |-> "free", nErr |-> 0, nOk |-> 0, sent |-> <<>>,
     sids |-> <<>>, posts |-> <<>>, authz |-> UNDEF, dash |-> <<>>]

Terminal == {"free", "done", "crashed"}

\* the closure of a call that has just issued its first request; sent lists
\* the requests the call has issued, sids the SessionID header of each of
\* them (none for dashboard(): t3util.dashboardOptions is not in the sources),
\* posts the options login() has passed to request.post, and the headers of
\* the options getAccount() and getStatements() have passed to request.get
NewCall(op, pc, sent) ==
    [op |-> op, pc |-> pc, nErr |-> 0, nOk |-> 0, sent |-> sent,
     sids |-> <<>>, posts |-> <<>>, authz |-> UNDEF, dash |-> <<>>]

\* the calls still in flight: the closure of a call that has completed is
\* garbage once the step that completed it is over
Live == [d \in Slots |-> IF calls[d].pc \in Terminal THEN FreeCall
                         ELSE calls[d]]

\* a new call takes the first slot that is free
FirstFree(c) ==
    /\ Live[c].pc = "free"
    /\ \A d \in Slots : d < c => Live[d].pc # "free"

\* a step of call c: it moves to pc, delivers errs on the error channel
\* and oks on the success channel, and issues the requests more
Upd(c, pc, errs, oks, more) ==
    [Live EXCEPT ![c] = [@ EXCEPT !.pc = pc,
                                   !.nErr = @ + Len(errs),
                                   !.nOk = @ + Len(oks),
                                   !.sent = @ \o more]]

\* the record of a step; args are the string arguments of a call of login
\* or search
Event(c, op, stage, outcome, errs, oks, uncaught) ==
    [slot |-> c, op |-> op, stage |-> stage, outcome |-> outcome,
     thrown |-> "", uncaught |-> uncaught, errs |-> errs, oks |-> oks,
     body |-> UNDEF, args |-> <<>>]

\* the record of a call that threw before doing anything
Thrown(op, msg) ==
    [slot |-> 0, op |-> op, stage |-> "call", outcome |-> "throw",
     thrown |-> msg, uncaught |-> FALSE, errs |-> <<>>, oks |-> <<>>,
     body |-> UNDEF, args |-> <<>>]

\* the endpoints a valid configuration of the variant may hold: Url stands
\* for a scheme and a host, the login_db endpoint has a path after them
Url == Str(<<"h">>)
InitialEndpoints(v) ==
    IF v = "index"
    THEN {[login |-> Url, search |-> Url, account |-> Url, dashboard |-> d,
           login_db |-> Str(Url.s \o <<"/", "p">>)] : d \in {UNDEF, Url}}
    ELSE {[login |-> Url, search |-> Url, account |-> Url,
           dashboard |-> UNDEF, login_db |-> UNDEF]}

\* the configuration of the examples: customer, application and secret
CUSTOMER == <<"T","e","s","t","e","r">>
APP == <<"M","o","c","h","a">>
SECRET == <<"s","e","c","r","e","t">>
SESSION ==
    <<"1","5","3","4","4","b","6","f","-","2","1","3","1","-","2","f","a","9","-","9","9","4","e","-","c","6","9","1","0","3","b","e","9","8","5","9">>
\* what guid() returns for the k-th request options of the call in slot c:
\* a fresh value, no two calls of guid() whose requests are in flight
\* together return the same one
Digits == <<"0","1","2","3","4","5","6","7","8","9">>
Guid(c, k) == Str(<<"g", Digits[c + 1], "-", Digits[k + 1]>>)

\* the configurations a client may be constructed with: validateConfig
\* keeps a sessionId the caller has put into the configuration
Configs ==
    {[customer |-> Str(CUSTOMER), app |-> Str(APP), secret |-> Str(SECRET),
      sessionId |-> sid] : sid \in {UNDEF, Str(SESSION)}}

\* lib/t3util.js requestOptions: the X-SpeechCycle-SmartCare-SessionID of
\* the options it returns, where g is what guid() returns in this call
RequestOptions(cfg, g) ==
    IF Truthy(cfg.sessionId) THEN cfg.sessionId ELSE g

\* ------------------------------------------------------------------- token
\* the ASCII characters a string may hold: those of the codes 32 to 95, and
\* those of the codes 97 to 126
AsciiLow ==
    <<" ","!","\"","#","$","%","&","'","(",")","*","+",",","-",".","/",
      "0","1","2","3","4","5","6","7","8","9",":",";","<","=",">","?",
      "@","A","B","C","D","E","F","G","H","I","J","K","L","M","N","O",
      "P","Q","R","S","T","U","V","W","X","Y","Z","[","\\","]","^","_">>
AsciiHigh ==
    <<"a","b","c","d","e","f","g","h","i","j","k","l","m","n","o",
      "p","q","r","s","t","u","v","w","x","y","z","{","|","}","~">>

\* s.charCodeAt(i) of an ASCII character
CharCode(ch) ==
    IF \E i \in DOMAIN AsciiLow : AsciiLow[i] = ch
    THEN 31 + CHOOSE i \in DOMAIN AsciiLow : AsciiLow[i] = ch
    ELSE 96 + CHOOSE i \in DOMAIN AsciiHigh : AsciiHigh[i] = ch

\* a parse to UTF-16: two bytes for each character, the low one first
Utf8Parse_Utf16(chars) ==
    [i \in 1..(2 * Len(chars)) |->
        IF i % 2 = 1 THEN CharCode(chars[(i + 1) \div 2]) ELSE 0]

\* CryptoJS.enc.Utf8.parse: the bytes of a string of ASCII characters, one
\* byte for each of them
Utf8Parse(chars) == [i \in DOMAIN chars |-> CharCode(chars[i])]

\* CryptoJS.SHA1, computed on 32-bit words; a word is the pair of its 16-bit
\* halves <<high, low>>. A value that is used more than once is computed
\* once, as the only element of a set: CHOOSE r \in {F(x) : x \in {e}} : TRUE
\* is F of the value of e.
Half == 65536
RECURSIVE Pow2(_)
Pow2(n) == IF n = 0 THEN 1 ELSE 2 * Pow2(n - 1)

\* the bit of weight p (a power of two) of n
Bit(n, p) == (n \div p) % 2

\* the functions of three bits the rounds use: the choice of y or z by x,
\* the majority, and the parity
BitOp(f, x, y, z) ==
    CASE f = "ch" -> (x * y) + ((1 - x) * z)
      [] f = "maj" -> IF x + y + z >= 2 THEN 1 ELSE 0
      [] OTHER -> (x + y + z) % 2

\* f on the sixteen bits of three half words: on the bits of weight p, on
\* four bits from weight p on, on all of them
OpHalf(f, a, b, c) ==
    LET OpBit(p) == BitOp(f, Bit(a, p), Bit(b, p), Bit(c, p)) * p
        OpNibble(p) ==
            (OpBit(p) + OpBit(2 * p)) + (OpBit(4 * p) + OpBit(8 * p))
    IN (OpNibble(1) + OpNibble(16)) + (OpNibble(256) + OpNibble(4096))

\* the sum of the two or five words of the tuple x, modulo 2^32
Sum32(v) ==
    LET SumOf(x) ==
            LET lo == IF Len(x) = 2 THEN x[1][2] + x[2][2]
                      ELSE x[1][2] + x[2][2] + x[3][2] + x[4][2] + x[5][2]
                hi == IF Len(x) = 2 THEN x[1][1] + x[2][1]
                      ELSE x[1][1] + x[2][1] + x[3][1] + x[4][1] + x[5][1]
            IN <<(hi + (lo \div Half)) % Half, lo % Half>>
    IN CHOOSE r \in {SumOf(x) : x \in {v}} : TRUE

\* rotation of the word x to the left by n bits, 0 <= n < 32: of its
\* halves, swapped if n >= 16, by n % 16 bits
Rotl32(x, n) ==
    LET RotlHalf(y, m) ==
            IF m = 0 THEN y
            ELSE <<((y[1] * Pow2(m)) % Half) + (y[2] \div Pow2(16 - m)),
                   ((y[2] * Pow2(m)) % Half) + (y[1] \div Pow2(16 - m))>>
    IN CHOOSE r \in {RotlHalf(y, n % 16) :
                       y \in {IF n >= 16 THEN <<x[2], x[1]>> ELSE x}} : TRUE

\* the padded message: the bytes, 0x80, zeros, and the length in bits as a
\* 64-bit big-endian number
Pad(bytes) ==
    LET Zeros(n) == [i \in 1..n |-> 0]
        PadOf(x) ==
            LET len == Len(x)
                k == (119 - (len % 64)) % 64
                bits == 8 * len
            IN x \o <<128>> \o Zeros(k) \o Zeros(4)
                 \o <<(bits \div 16777216) % 256, (bits \div 65536) % 256,
                      (bits \div 256) % 256, bits % 256>>
    IN CHOOSE r \in {PadOf(x) : x \in {bytes}} : TRUE

\* the 16 words of block b (from 0) of the padded message
BlockWords(msg, b) ==
    [t \in 1..16 |->
        LET o == 64 * b + 4 * (t - 1)
        IN <<256 * msg[o + 1] + msg[o + 2], 256 * msg[o + 3] + msg[o + 4]>>]

\* the exclusive or of the words a and b
Xor32(a, b) ==
    <<OpHalf("parity", a[1], b[1], 0), OpHalf("parity", a[2], b[2], 0)>>

\* word t of the message schedule, from the words w before it
ScheduleWord(w, t) ==
    CHOOSE r \in
        {Rotl32(Xor32(x, w[t - 16]), 1) :
            x \in {Xor32(y, w[t - 14]) : y \in {Xor32(w[t - 3], w[t - 8])}}} :
        TRUE

\* the n words from word t on of the message schedule, appended to the
\* words w before them
RECURSIVE Schedule(_, _, _)
Schedule(w, t, n) ==
    CHOOSE r \in
        {IF m = 1 THEN Append(x, ScheduleWord(x, u))
         ELSE Schedule(Schedule(x, u, m \div 2), u + (m \div 2), m - (m \div 2)) :
            x \in {w}, u \in {t}, m \in {n}} : TRUE

Ft(t, b, c, d) ==
    LET f == IF t <= 20 THEN "ch"
             ELSE IF t > 40 /\ t <= 60 THEN "maj" ELSE "parity"
    IN <<OpHalf(f, b[1], c[1], d[1]), OpHalf(f, b[2], c[2], d[2])>>

Kt(t) ==
    IF t <= 20 THEN <<23170, 31129>>
    ELSE IF t <= 40 THEN <<28377, 60321>>
    ELSE IF t <= 60 THEN <<36635, 48348>>
    ELSE <<51810, 49622>>

\* round t on the state s, with the word wt of the message schedule
Round(s, wt, t) ==
    CHOOSE r \in
        {<<Sum32(<<Rotl32(x[1], 5), Ft(t, x[2], x[3], x[4]), x[5], Kt(t), wt>>),
           x[1], Rotl32(x[2], 30), x[3], x[4]>> : x \in {s}} : TRUE

\* the n rounds from round t on, on the state s
RECURSIVE Rounds(_, _, _, _)
Rounds(s, w, t, n) ==
    CHOOSE r \in
        {IF m = 1 THEN Round(x, w[u], u)
         ELSE Rounds(Rounds(x, w, u, m \div 2), w, u + (m \div 2), m - (m \div 2)) :
            x \in {s}, u \in {t}, m \in {n}} : TRUE

H0 == << <<26437, 8961>>, <<61389, 43913>>, <<39098, 56574>>,
         <<4146, 21622>>, <<50130, 57840>> >>

\* the hash after block b (from 0) of the padded message: the 80 words of
\* the message schedule of its 16 words, the 80 rounds, and the sum
Block(h, msg, b) ==
    CHOOSE r \in
        {<<Sum32(<<h[1], x[1]>>), Sum32(<<h[2], x[2]>>), Sum32(<<h[3], x[3]>>),
           Sum32(<<h[4], x[4]>>), Sum32(<<h[5], x[5]>>)>> :
            x \in {Rounds(h, w, 1, 80) :
                    w \in {Schedule(BlockWords(msg, b), 17, 64)}}} : TRUE

RECURSIVE Blocks(_, _, _)
Blocks(h, msg, b) ==
    CHOOSE r \in
        {IF 64 * k >= Len(msg) THEN x
         ELSE Blocks(Block(x, msg, k), msg, k + 1) : x \in {h}, k \in {b}} : TRUE

\* CryptoJS.SHA1: the 20 bytes of the hash after the last block
SHA1(bytes) ==
    LET Digest(h) ==
            [i \in 1..20 |->
                LET half == h[((i - 1) \div 4) + 1][(((i - 1) % 4) \div 2) + 1]
                IN IF i % 2 = 1 THEN half \div 256 ELSE half % 256]
    IN CHOOSE r \in {Digest(h) :
                       h \in {Blocks(H0, msg, 0) : msg \in {Pad(bytes)}}} : TRUE

Base64Map ==
    <<"A","B","C","D","E","F","G","H","I","J","K","L","M","N","O","P",
      "Q","R","S","T","U","V","W","X","Y","Z","a","b","c","d","e","f",
      "g","h","i","j","k","l","m","n","o","p","q","r","s","t","u","v",
      "w","x","y","z","0","1","2","3","4","5","6","7","8","9","+","/">>

\* digest.toString(CryptoJS.enc.Base64): the text of the bytes from byte i on
RECURSIVE Base64From(_, _)
Base64From(bytes, i) ==
    IF i > Len(bytes) THEN <<>>
    ELSE LET n == Len(bytes) - i + 1
             b1 == bytes[i]
             b2 == IF n >= 2 THEN bytes[i + 1] ELSE 0
             b3 == IF n >= 3 THEN bytes[i + 2] ELSE 0
         IN << Base64Map[(b1 \div 4) + 1],
               Base64Map[((b1 % 4) * 16) + (b2 \div 16) + 1],
               IF n >= 2 THEN Base64Map[((b2 % 16) * 4) + (b3 \div 64) + 1]
               ELSE "=",
               IF n >= 3 THEN Base64Map[(b3 % 64) + 1] ELSE "=" >>
              \o Base64From(bytes, i + 3)
Base64Stringify(bytes) ==
    CHOOSE r \in {Base64From(x, 1) : x \in {bytes}} : TRUE

\* what a template literal or + makes of a value it joins to a string
StringOf(v) ==
    IF IsStr(v) THEN v.s
    ELSE IF v = NULL THEN <<"n","u","l","l">>
    ELSE <<"u","n","d","e","f","i","n","e","d">>

\* lib/t3util.js createToken: the Base64 text of the SHA-1 digest of
\* `${config.secret} ${config.app}:${config.customer}:${sessionId}`
CreateToken(cfg, sessionId) ==
    LET raw == cfg.secret.s \o <<" ">> \o cfg.app.s \o <<":">>
                 \o cfg.customer.s \o <<":">> \o StringOf(sessionId)
    IN CHOOSE r \in
        {Str(Base64Stringify(digest)) : digest \in {SHA1(Utf8Parse(raw))}} :
            TRUE

\* the session IDs a login may send: the configured one, or what guid()
\* returns for the call
SessionIDs == {Str(SESSION)} \cup {Guid(c, 1) : c \in Slots}

\* createToken on every configuration and session ID of a login, computed
\* once
Tokens ==
    {[config |-> cfg, sessionId |-> sid, token |-> CreateToken(cfg, sid)] :
        cfg \in Configs, sid \in SessionIDs}

\* the token createToken(cfg, sessionId) returns
Token(cfg, sessionId) ==
    (CHOOSE r \in Tokens : r.config = cfg /\ r.sessionId = sessionId).token

\* lib/t3util.js requestOptions: the headers of the options it returns (the
\* User-Agent, which no operation changes, is left out)
RequestHeaders(cfg, g) ==
    [CustomerID |-> cfg.customer, ApplicationID |-> cfg.app,
     Platform |-> Str(<<"A","l","l">>),
     Culture |-> Str(<<"e","n","-","u","s">>),
     SessionID |-> RequestOptions(cfg, g)]

\* a client on which no call is in flight and no touchmap is cached
Quiescent ==
    /\ variant \in Variants
    /\ endpoints \in InitialEndpoints(variant)
    /\ config \in Configs
    /\ actions = UNDEF
    /\ menu = UNDEF
    /\ clock = 0
    /\ calls = [c \in Slots |-> FreeCall]
    /\ last = Event(0, "none", "init", "none", <<>>, <<>>, FALSE)

Init == Quiescent /\ auth = UNDEF

\* ------------------------------------------------------------------- login
\* a validation of login that does not look at the endpoint
LoginValidation_NoEndpoint(v, eps, username, password) ==
    FirstError(<<ValidateStringError(username, "username"),
                 ValidateStringError(password, "password")>>)

\* the synchronous validation of login(username, password, handlers)
LoginValidation(v, eps, username, password) ==
    FirstError(<<ValidateStringError(username, "username"),
                 ValidateStringError(password, "password"),
                 IF v = "t3services" THEN ""
                 ELSE ValidateStringError(eps.login, "login endpoint")>>)

\* the options of the first POST: those of requestOptions, the url and the
\* JSON body of the validated (trimmed) arguments
LoginOptions(cfg, eps, g, username, password) ==
    [url |-> eps.login,
     json |-> [ID |-> Str(Trim(username.s)),
               Password |-> Str(Trim(password.s)),
               AdditionalValuesVersion |-> Str(<<"2">>)],
     headers |-> RequestHeaders(cfg, g)]

\* login(): validation, then the first POST
Login(c, username, password) ==
    /\ "login" \in Operations(variant)
    /\ UNCHANGED <<variant, endpoints, config, auth, actions, menu, clock>>
    /\ LET err == LoginValidation(variant, endpoints, username, password)
       IN IF err # ""
          THEN /\ c = 1
               /\ last' = [Thrown("login", err)
                             EXCEPT !.args = <<username, password>>]
               /\ calls' = Live
          ELSE /\ FirstFree(c)
               /\ LET opts == LoginOptions(config, endpoints, Guid(c, 1),
                                           username, password)
                  IN calls' = [Live EXCEPT ![c] =
                       [NewCall("login", "round1", <<"login">>)
                          EXCEPT !.sids = <<opts.headers.SessionID>>,
                                 !.posts = <<opts>>]]
               /\ last' = [Event(c, "login", "call", "sent", <<>>, <<>>, FALSE)
                             EXCEPT !.args = <<username, password>>]

\* an Authorization whose token is made of the challenge received
Authorization_OfChallenge(authHeader, token) ==
    [t |-> "authorization", challenge |-> authHeader,
     header |-> Str(StringOf(authHeader)
                      \o <<",", " ", "t", "o", "k", "e", "n", "=">>
                      \o StringOf(authHeader))]

\* opts.headers['Authorization'] = authHeader + `, token=${token}`: the
\* challenge it was made of, and the header
Authorization(authHeader, token) ==
    [t |-> "authorization", challenge |-> authHeader,
     header |-> Str(StringOf(authHeader)
                      \o <<",", " ", "t", "o", "k", "e", "n", "=">>
                      \o StringOf(token))]

\* a SecondOptions that asks requestOptions for new options
SecondOptions_Fresh(opts, authz) ==
    [opts EXCEPT !.headers =
        SetProp(SetProp(@, "SessionID", Guid(0, 2)),
                "Authorization", authz.header)]

\* the options of the second POST: the object of the first POST, with the
\* Authorization header set
SecondOptions(opts, authz) ==
    [opts EXCEPT !.headers = SetProp(@, "Authorization", authz.header)]

\* whether an error branch of the second response handler returns
Round2Returns(v) == v \in {"smartcare", "index"}

\* a StoreAuth that forgets the body: this.auth = Object.assign({})
StoreAuth_Empty(body) == EmptyObject

\* a StoreAuth that assigns the body to the stored token:
\* Object.assign(this.auth || {}, body)
StoreAuth_Merge(body) ==
    ObjectAssign(IF auth = UNDEF THEN EmptyObject ELSE auth, body)

\* this.auth = Object.assign({}, body)
StoreAuth(body) == ObjectAssign(EmptyObject, body)

\* what the handler of the first response finds in the response headers:
\* var authHeader = insensitiveGet(rsp.headers, 'WWW-Authenticate') and the
\* outcome of its test, for every header object the response may carry
ChallengeLookups ==
    { [authHeader |-> InsensitiveGet(h, WWW_AUTHENTICATE),
       missing |-> ChallengeMissing(InsensitiveGet(h, WWW_AUTHENTICATE))] :
        h \in ResponseHeaders }

\* the handler of the first response
LoginRound1(c) ==
    /\ calls[c].op = "login" /\ calls[c].pc = "round1"
    /\ UNCHANGED <<variant, endpoints, config, auth, actions, menu, clock>>
    /\ \/ \E e \in TransportErrors :
            \* the error is reported, then rsp.headers of an undefined rsp
            \* throws a TypeError out of the handler
            /\ calls' = Upd(c, "crashed", <<e>>, <<>>, <<>>)
            /\ last' = Event(c, "login", "round1", "error", <<e>>, <<>>, TRUE)
       \/ \E r \in ChallengeLookups :
            LET authHeader == r.authHeader
                missing == r.missing
                errs == IF missing THEN <<"Challenge not found">> ELSE <<>>
                opts == calls[c].posts[1]
                token == Token(config, opts.headers.SessionID)
                authz == Authorization(authHeader, token)
                second == SecondOptions(opts, authz)
            IN \* no branch returns: the second POST is issued in every case
               /\ calls' = [Upd(c, "round2", errs, <<>>, <<"login">>)
                              EXCEPT ![c].authz = authz,
                                     ![c].sids = @ \o <<second.headers.SessionID>>,
                                     ![c].posts = @ \o <<second>>]
               /\ last' = Event(c, "login", "round1",
                                IF missing THEN "nochallenge" ELSE "challenge",
                                errs, <<>>, FALSE)

\* the handler of the second response
LoginRound2(c) ==
    /\ calls[c].op = "login" /\ calls[c].pc = "round2"
    /\ UNCHANGED <<variant, endpoints, config, actions, menu, clock>>
    /\ \/ \E e \in TransportErrors :
            /\ auth' = auth
            /\ IF Round2Returns(variant)
               THEN /\ calls' = Upd(c, "done", <<e>>, <<>>, <<>>)
                    /\ last' = Event(c, "login", "round2", "error",
                                     <<e>>, <<>>, FALSE)
               ELSE \* rsp.statusCode of an undefined rsp throws
                    /\ calls' = Upd(c, "crashed", <<e>>, <<>>, <<>>)
                    /\ last' = Event(c, "login", "round2", "error",
                                     <<e>>, <<>>, TRUE)
       \/ \E status \in StatusCodes :
          \E body \in (IF status = 200 THEN LoginBodies ELSE FailBodies) :
            LET failed == status # 200
                errs == IF failed THEN <<"Authentication failed">> ELSE <<>>
                stops == failed /\ Round2Returns(variant)
                oks == IF stops THEN <<>> ELSE <<body>>
            IN /\ auth' = IF stops THEN auth ELSE StoreAuth(body)
               /\ calls' = Upd(c, "done", errs, oks, <<>>)
               /\ last' = [Event(c, "login", "round2",
                                 IF failed THEN "non200" ELSE "200",
                                 errs, oks, FALSE)
                             EXCEPT !.body = body]

\* ---------------------------------------------------------------- touchmap
ActionA1 == [Name |-> "A", Text |-> "one"]
ActionA2 == [Name |-> "A", Text |-> "two"]
ActionB == [Name |-> "B", Text |-> "one"]
ActionR == [Name |-> "refreshTime", Text |-> "one"]
ServiceItem(n, title) == [Action |-> Name(n), Title |-> title]

\* the JSON bodies a touch-map response may carry with status 200
TouchmapBodies ==
    { [Actions |-> <<ActionA1>>, ServiceItems |-> <<ServiceItem("A", "m1")>>],
      [Actions |-> <<ActionA2, ActionB>>,
       ServiceItems |-> <<ServiceItem("B", "m1"), ServiceItem("C", "m2"),
                          ServiceItem("A", "m3")>>],
      [Actions |-> <<ActionA1, ActionA2>>,
       ServiceItems |-> <<ServiceItem("A", "m1")>>],
      [Actions |-> <<ActionR>>, ServiceItems |-> <<>>],
      [ServiceItems |-> <<>>],
      [Actions |-> <<ActionB>>],
      UNDEF }

Result(action) == [Action |-> action, Confidence |-> 1]

\* the JSON bodies a search response may carry with status 200
SearchBodies ==
    { [Results |-> <<>>],
      [Results |-> <<Result(Name("A"))>>],
      [Results |-> <<Result(Name("C")), Result(ActionB), Result(Name("B"))>>],
      [Results |-> <<Result(Name("refreshTime"))>>],
      [expected |-> TRUE],
      UNDEF }

\* new Date()
Date(now) == [date |-> now]

\* get hasActions
HasActions(a) == Truthy(a) /\ "refreshTime" \in DOMAIN a

\* get hasMenu (this.actions is read without a check)
HasMenu(m, a) == Truthy(m) /\ Truthy(a) /\ "refreshTime" \in DOMAIN a

\* body.Actions.find(a => a.Name == name): the first match, or undefined
RECURSIVE Find(_, _)
Find(list, name) ==
    IF list = <<>> THEN UNDEF
    ELSE IF Head(list).Name = name THEN Head(list)
    ELSE Find(Tail(list), name)

\* a map without the filter: an item whose action is not found stays as it is
FilterMap_Keep(items, list) ==
    [i \in DOMAIN items |->
        IF Truthy(Find(list, items[i].Action.n))
        THEN [items[i] EXCEPT !.Action = Find(list, items[i].Action.n)]
        ELSE items[i]]

\* body.ServiceItems.filter(si => body.Actions.find(...)).map(si => ...)
RECURSIVE FilterMap(_, _)
FilterMap(items, list) ==
    IF items = <<>> THEN <<>>
    ELSE LET si == Head(items)
             found == Find(list, si.Action.n)
         IN IF Truthy(found)
            THEN <<[si EXCEPT !.Action = found]>> \o FilterMap(Tail(items), list)
            ELSE FilterMap(Tail(items), list)

\* body.Actions.forEach(a => { this.actions[a.Name] = a; })
RECURSIVE StoreActions(_, _)
StoreActions(obj, list) ==
    IF list = <<>> THEN obj
    ELSE StoreActions(SetProp(obj, Head(list).Name, Head(list)), Tail(list))

\* whether the transform of the touch-map body throws a TypeError, and
\* where: "menu" before anything is assigned, "actions" after this.menu and
\* this.actions = { refreshTime } have been assigned, "" not at all
TouchmapThrows(v, body) ==
    IF body = UNDEF THEN "menu"
    ELSE IF v = "smartcare" /\ "ServiceItems" \notin DOMAIN body THEN "menu"
    ELSE IF v = "smartcare" /\ body.ServiceItems # <<>>
            /\ "Actions" \notin DOMAIN body THEN "menu"
    ELSE IF "Actions" \notin DOMAIN body THEN "actions"
    ELSE ""

\* a JavaScript array held in a property that may also be undefined
Array(items) == [items |-> items]

\* the value assigned to this.menu
NewMenu(v, body) ==
    IF v = "smartcare"
    THEN Array(FilterMap(body.ServiceItems, Get(body, "Actions")))
    ELSE IF "ServiceItems" \in DOMAIN body THEN Array(body.ServiceItems)
    ELSE UNDEF

\* the value this.actions has when the handler ends
NewActions(body, now) ==
    IF "Actions" \in DOMAIN body
    THEN StoreActions([refreshTime |-> Date(now)], body.Actions)
    ELSE [refreshTime |-> Date(now)]

\* a Resolve that leaves every result as it came
Resolve_Keep(a, cache) == a

\* a.Action = this.actions[a.Action] unless a.Action is an object
Resolve(a, cache) ==
    IF TypeOf(a.Action) # "object"
    THEN [a EXCEPT !.Action = Get(cache, a.Action.n)]
    ELSE a

\* body.Results.forEach(...) of the variant: only "smartcare" resolves
ResolveResults(v, body, cache) ==
    IF v = "smartcare"
    THEN [body EXCEPT !.Results = [i \in DOMAIN body.Results |->
                                      Resolve(body.Results[i], cache)]]
    ELSE body

\* whether the search response handler throws a TypeError on this body
SearchThrows(v, body) ==
    v = "smartcare" /\ (body = UNDEF \/ "Results" \notin DOMAIN body)

\* a search() that shares the refresh another call has in flight
SearchRefreshes_Shared(v, a) ==
    /\ v = "smartcare"
    /\ ~HasActions(a)
    /\ ~\E d \in Slots : calls[d].pc = "touchmap"

\* whether search() refreshes the touchmap first
SearchRefreshes(v, a) == v = "smartcare" /\ ~HasActions(a)

\* whether an error branch of the search response handler returns
SearchReturns(v) == v \in {"smartcare", "index"}

\* what a successful refreshTouchmap passes to its success channel
RefreshResult(v) == IF v = "index" THEN [t |-> "this"] ELSE UNDEF

\* the synchronous validation of search(query, handlers)
SearchValidation(v, eps, query) ==
    FirstError(<<ValidateStringError(query, "query"),
                 IF v = "t3services" THEN ""
                 ELSE ValidateStringError(eps.search, "search endpoint")>>)

\* refreshTouchmap(): validation, then the touch-map GET
RefreshTouchmap(c) ==
    /\ "refreshTouchmap" \in Operations(variant)
    /\ UNCHANGED <<variant, endpoints, config, auth, actions, menu, clock>>
    /\ LET err == ValidateStringError(endpoints.search, "search endpoint")
       IN IF err # ""
          THEN /\ c = 1
               /\ last' = Thrown("refreshTouchmap", err)
               /\ calls' = Live
          ELSE /\ FirstFree(c)
               /\ LET g == Guid(c, 1) IN
                    calls' = [Live EXCEPT ![c] =
                       [NewCall("refreshTouchmap", "touchmap", <<"touch-map">>)
                          EXCEPT !.sids = <<RequestOptions(config, g)>>]]
               /\ last' = Event(c, "refreshTouchmap", "call", "sent",
                                <<>>, <<>>, FALSE)

\* search(): validation, then the touch-map GET or the search GET
Search(c, query) ==
    /\ "search" \in Operations(variant)
    /\ UNCHANGED <<variant, endpoints, config, auth, actions, menu, clock>>
    /\ LET err == SearchValidation(variant, endpoints, query)
       IN IF err # ""
          THEN /\ c = 1
               /\ last' = [Thrown("search", err) EXCEPT !.args = <<query>>]
               /\ calls' = Live
          ELSE /\ FirstFree(c)
               /\ LET g == Guid(c, 1) IN
                    calls' = [Live EXCEPT ![c] =
                       [(IF SearchRefreshes(variant, actions)
                         THEN NewCall("search", "touchmap", <<"touch-map">>)
                         ELSE NewCall("search", "simple", <<"simple">>))
                          EXCEPT !.sids = <<RequestOptions(config, g)>>]]
               /\ last' = [Event(c, "search", "call", "sent", <<>>, <<>>, FALSE)
                             EXCEPT !.args = <<query>>]

\* a refresh of search() that goes on to the search request after a failure
RefreshFailureSends_Search(op) ==
    IF op = "search" THEN <<"simple">> ELSE <<>>

\* the requests issued when the touch-map request fails: none, the error
\* handler of the refresh that search() starts is the caller's own onError
RefreshFailureSends(op) == <<>>

\* where a call is after its touch-map request has failed
AfterRefreshFailure(op) ==
    IF RefreshFailureSends(op) = <<>> THEN "done" ELSE "simple"

\* a failed refresh that throws the cache away
CacheAfterFailure_Reset(a) == UNDEF

\* this.actions after a touch-map request that failed: both error branches
\* return before anything is assigned
CacheAfterFailure(a) == a

\* the handler of the touch-map response, of refreshTouchmap() and of the
\* refresh that search() starts (its success handler is performSearch)
TouchmapResponse(c) ==
    /\ calls[c].pc = "touchmap"
    /\ UNCHANGED <<variant, endpoints, config, auth>>
    /\ LET op == calls[c].op
       IN
       \/ \E e \in TransportErrors :
            /\ calls' = Upd(c, AfterRefreshFailure(op), <<e>>, <<>>,
                            RefreshFailureSends(op))
            /\ last' = Event(c, op, "touchmap", "error", <<e>>, <<>>, FALSE)
            /\ actions' = CacheAfterFailure(actions)
            /\ UNCHANGED <<menu, clock>>
       \/ \E body \in FailBodies :
            /\ calls' = Upd(c, AfterRefreshFailure(op),
                            <<"Touchmap refresh failed">>, <<>>,
                            RefreshFailureSends(op))
            /\ last' = Event(c, op, "touchmap", "non200",
                             <<"Touchmap refresh failed">>, <<>>, FALSE)
            /\ actions' = CacheAfterFailure(actions)
            /\ UNCHANGED <<menu, clock>>
       \/ \E body \in TouchmapBodies :
          \E now \in {clock, clock + 1} :
            /\ now <= MaxClock
            /\ clock' = IF TouchmapThrows(variant, body) = "menu"
                        THEN clock ELSE now
            /\ CASE TouchmapThrows(variant, body) = "menu" ->
                      /\ UNCHANGED <<actions, menu>>
                      /\ calls' = Upd(c, "crashed", <<>>, <<>>, <<>>)
                      /\ last' = [Event(c, op, "touchmap", "200",
                                        <<>>, <<>>, TRUE)
                                    EXCEPT !.body = body]
                 [] TouchmapThrows(variant, body) = "actions" ->
                      /\ menu' = NewMenu(variant, body)
                      /\ actions' = NewActions(body, now)
                      /\ calls' = Upd(c, "crashed", <<>>, <<>>, <<>>)
                      /\ last' = [Event(c, op, "touchmap", "200",
                                        <<>>, <<>>, TRUE)
                                    EXCEPT !.body = body]
                 [] OTHER ->
                      /\ menu' = NewMenu(variant, body)
                      /\ actions' = NewActions(body, now)
                      /\ IF op = "search"
                         THEN /\ LET g == Guid(c, 2) IN
                                   calls' = [Upd(c, "simple", <<>>, <<>>,
                                                 <<"simple">>)
                                      EXCEPT ![c].sids =
                                         @ \o <<RequestOptions(config, g)>>]
                              /\ last' = [Event(c, op, "touchmap", "200",
                                                <<>>, <<>>, FALSE)
                                            EXCEPT !.body = body]
                         ELSE /\ calls' = Upd(c, "done", <<>>,
                                              <<RefreshResult(variant)>>, <<>>)
                              /\ last' = [Event(c, op, "touchmap", "200",
                                                <<>>,
                                                <<RefreshResult(variant)>>,
                                                FALSE)
                                            EXCEPT !.body = body]

\* the handler of the search response
SearchResponse(c) ==
    /\ calls[c].op = "search" /\ calls[c].pc = "simple"
    /\ UNCHANGED <<variant, endpoints, config, auth, actions, menu, clock>>
    /\ \/ \E e \in TransportErrors :
            IF SearchReturns(variant)
            THEN /\ calls' = Upd(c, "done", <<e>>, <<>>, <<>>)
                 /\ last' = Event(c, "search", "simple", "error",
                                  <<e>>, <<>>, FALSE)
            ELSE \* rsp.statusCode of an undefined rsp throws
                 /\ calls' = Upd(c, "crashed", <<e>>, <<>>, <<>>)
                 /\ last' = Event(c, "search", "simple", "error",
                                  <<e>>, <<>>, TRUE)
       \/ \E status \in StatusCodes :
          \E body \in (IF status = 200 THEN SearchBodies ELSE FailBodies) :
            LET failed == status # 200
                errs == IF failed THEN <<"Search failed">> ELSE <<>>
                stops == failed /\ SearchReturns(variant)
                throws == ~stops /\ SearchThrows(variant, body)
                oks == IF stops \/ throws THEN <<>>
                       ELSE <<ResolveResults(variant, body, actions)>>
            IN /\ calls' = Upd(c, IF throws THEN "crashed" ELSE "done",
                               errs, oks, <<>>)
               /\ last' = [Event(c, "search", "simple",
                                 IF failed THEN "non200" ELSE "200",
                                 errs, oks, throws)
                             EXCEPT !.body = body]

\* ------------------------------------------- account, statements, dashboard
LOGIN_REQUIRED == "An active login is required"

Bool(b) == [t |-> "boolean", b |-> b]

\* lib/validate.js validateBoolean
ValidateBooleanError(v, argName) ==
    IF v = UNDEF \/ v = NULL THEN "Parameter was undefined or null"
    ELSE IF v.t # "boolean" THEN "Parameter must be a boolean"
    ELSE ""

\* the arguments a caller may pass to getStatements
CountValues == {Num(1), Num(0), NULL}
PdfValues == {Bool(TRUE), Bool(FALSE), NULL}

\* the bodies an account, statement or dashboard response may carry
DataBodies == {[Data |-> "d1"], [Data |-> "d2"]}

\* Array.prototype.join(','): the elements, a comma between any two of them
RECURSIVE Join(_)
Join(items) ==
    IF Len(items) = 0 THEN <<>>
    ELSE IF Len(items) = 1 THEN <<items[1]>>
    ELSE <<items[1], ",">> \o Join(Tail(items))

\* an authHeaders that sets the AdditionalValues header of every request
AuthHeaders_Always(a) ==
    [UserID |-> Get(a, "Value"), UserName |-> Get(a, "Value"),
     T3Token |-> Get(a, "T3Token"),
     AdditionalValues |->
        Str(IF "AdditionalValues" \in DOMAIN a
            THEN Join(a.AdditionalValues) ELSE <<>>)]

\* lib/t3util.js authHeaders: the headers made of the stored AuthToken
AuthHeaders(a) ==
    LET headers == [UserID |-> Get(a, "Value"), UserName |-> Get(a, "Value"),
                    T3Token |-> Get(a, "T3Token")]
    IN IF "AdditionalValues" \in DOMAIN a /\ Len(a.AdditionalValues) > 0
       THEN SetProp(headers, "AdditionalValues", Str(Join(a.AdditionalValues)))
       ELSE headers

\* the options of the GET of getAccount() and getStatements(): the headers
\* of requestOptions, to which those of authHeaders are assigned
\* options that carry the name of a caller that has logged in
AccountOptions_WithUser(cfg, g, a) ==
    [headers |-> SetProp(ObjectAssign(RequestHeaders(cfg, g), AuthHeaders(a)),
                         "User", Str(<<"u","n">>))]

AccountOptions(cfg, g, a) ==
    [headers |-> ObjectAssign(RequestHeaders(cfg, g), AuthHeaders(a))]

\* a getAccount that does not look at isAuthenticated
AccountValidation_NoLogin(eps, a) ==
    ValidateStringError(eps.account, "account endpoint")

\* the synchronous checks of getAccount(handlers)
AccountValidation(eps, a) ==
    FirstError(<<ValidateStringError(eps.account, "account endpoint"),
                 IF IsAuthenticated(a) THEN "" ELSE LOGIN_REQUIRED>>)

\* the synchronous checks of getStatements(count, pdf, handlers)
StatementsValidation(eps, a, count, pdf) ==
    FirstError(<<ValidateNumberError(count, 1, "count"),
                 ValidateBooleanError(pdf, "pdf"),
                 ValidateStringError(eps.account, "account endpoint"),
                 IF IsAuthenticated(a) THEN "" ELSE LOGIN_REQUIRED>>)

\* the synchronous checks of dashboard(callback)
DashboardValidation(eps, a) ==
    FirstError(<<ValidateStringError(eps.dashboard, "dashboard endpoint"),
                 IF IsAuthenticated(a) THEN "" ELSE LOGIN_REQUIRED>>)

\* the message a response with another status than 200 is reported with
FailureMessage(v, op) ==
    CASE op = "getAccount" -> "Account lookup failed"
      [] op = "getStatements" ->
            IF v = "index" THEN "Statement lookup failed"
            ELSE "Account lookup failed"
      [] op = "dashboard" -> "Dashboard refresh failed"

\* getAccount(): the checks, then the GET
GetAccount(c) ==
    /\ "getAccount" \in Operations(variant)
    /\ UNCHANGED <<variant, endpoints, config, auth, actions, menu, clock>>
    /\ LET err == AccountValidation(endpoints, auth)
       IN IF err # ""
          THEN /\ c = 1
               /\ last' = Thrown("getAccount", err)
               /\ calls' = Live
          ELSE /\ FirstFree(c)
               /\ LET g == Guid(c, 1) IN
                    calls' = [Live EXCEPT ![c] =
                       [NewCall("getAccount", "get", <<"get-by-number">>)
                          EXCEPT !.sids = <<RequestOptions(config, g)>>,
                                 !.posts = <<AccountOptions(config, g, auth)>>]]
               /\ last' = Event(c, "getAccount", "call", "sent",
                                <<>>, <<>>, FALSE)

\* getStatements(): the checks, then the GET
GetStatements(c, count, pdf) ==
    /\ "getStatements" \in Operations(variant)
    /\ UNCHANGED <<variant, endpoints, config, auth, actions, menu, clock>>
    /\ LET err == StatementsValidation(endpoints, auth, count, pdf)
       IN IF err # ""
          THEN /\ c = 1
               /\ last' = Thrown("getStatements", err)
               /\ calls' = Live
          ELSE /\ FirstFree(c)
               /\ LET g == Guid(c, 1) IN
                    calls' = [Live EXCEPT ![c] =
                       [NewCall("getStatements", "get",
                                <<IF pdf.b THEN "pdf-statement" ELSE "bill">>)
                          EXCEPT !.sids = <<RequestOptions(config, g)>>,
                                 !.posts = <<AccountOptions(config, g, auth)>>]]
               /\ last' = Event(c, "getStatements", "call", "sent",
                                <<>>, <<>>, FALSE)

\* the handler of the response of getAccount() and getStatements()
GetResponse(c) ==
    /\ calls[c].pc = "get"
    /\ UNCHANGED <<variant, endpoints, config, auth, actions, menu, clock>>
    /\ LET op == calls[c].op
       IN
       \/ \E e \in TransportErrors :
            /\ calls' = Upd(c, "done", <<e>>, <<>>, <<>>)
            /\ last' = Event(c, op, "get", "error", <<e>>, <<>>, FALSE)
       \/ \E body \in FailBodies :
            /\ calls' = Upd(c, "done", <<FailureMessage(variant, op)>>,
                            <<>>, <<>>)
            /\ last' = Event(c, op, "get", "non200",
                             <<FailureMessage(variant, op)>>, <<>>, FALSE)
       \/ \E body \in DataBodies :
            /\ calls' = Upd(c, "done", <<>>, <<body>>, <<>>)
            /\ last' = Event(c, op, "get", "200", <<>>, <<body>>, FALSE)

\* the four requests of dashboard(), in the order of the endpoints array
DashboardEndpoints ==
    << <<"G","e","t","B","i","l","l","i","n","g","D","a","t","a">>,
       <<"G","e","t","U","s","a","g","e","D","a","t","a">>,
       <<"G","e","t","O","u","t","a","g","e","D","a","t","a">>,
       <<"G","e","t","A","p","p","o","i","n","t","m","e","n","t","D","a","t","a">> >>

\* s.replace(pat, ''): the first occurrence of pat is removed
RECURSIVE RemoveFirst(_, _)
RemoveFirst(s, pat) ==
    IF Len(s) < Len(pat) THEN s
    ELSE IF SubSeq(s, 1, Len(pat)) = pat
         THEN SubSeq(s, Len(pat) + 1, Len(s))
         ELSE <<Head(s)>> \o RemoveFirst(Tail(s), pat)

\* a result whose keys are the names of the endpoints as they are
DashboardResult_Endpoints(results) ==
    [k \in {DashboardEndpoints[i] : i \in DOMAIN DashboardEndpoints} |->
        results[CHOOSE i \in DOMAIN DashboardEndpoints :
                  DashboardEndpoints[i] = k]]

\* results.reduce(...): the object that maps endpoints[i].replace('Get', '')
\* to results[i]
DashboardResult(results) ==
    [k \in {RemoveFirst(DashboardEndpoints[i], <<"G","e","t">>) :
              i \in DOMAIN DashboardEndpoints} |->
        results[CHOOSE i \in DOMAIN DashboardEndpoints :
                  RemoveFirst(DashboardEndpoints[i], <<"G","e","t">>) = k]]

\* whether slot d holds a dashboard() call with a request still out
DashboardPending(d) ==
    /\ calls[d].op = "dashboard"
    /\ \E i \in DOMAIN calls[d].dash : calls[d].dash[i] = UNDEF

\* a dashboard() that sends its first request again
DashboardRequests_Retry ==
    <<"GetBillingData", "GetUsageData", "GetOutageData", "GetAppointmentData",
      "GetBillingData">>

\* the requests of dashboard(), as a call records them in sent
DashboardRequests ==
    <<"GetBillingData", "GetUsageData", "GetOutageData", "GetAppointmentData">>

\* the body the i-th dashboard request is answered with
DashboardBody(i) == [Data |-> DashboardRequests[i]]

\* the mark of a dashboard request that has been answered and whose result
\* async.map does not keep: the request failed, or the call had failed. Once
\* the call has failed async.map ignores every later outcome, so that only the
\* number of the requests still out matters: the marks are kept at the front
ANSWERED == [answered |-> TRUE]

\* dashboard(): the checks, then the four POSTs of async.map
Dashboard(c) ==
    /\ "dashboard" \in Operations(variant)
    /\ UNCHANGED <<variant, endpoints, config, auth, actions, menu, clock>>
    /\ LET err == DashboardValidation(endpoints, auth)
       IN IF err # ""
          THEN /\ c = 1
               /\ last' = Thrown("dashboard", err)
               /\ calls' = Live
          ELSE /\ FirstFree(c)
               /\ Cardinality({d \in Slots : DashboardPending(d)})
                     < MaxDashboards
               /\ calls' = [Live EXCEPT ![c] =
                    [NewCall("dashboard", "dash", DashboardRequests)
                       EXCEPT !.dash = [i \in DOMAIN DashboardEndpoints |->
                                          UNDEF]]]
               /\ last' = Event(c, "dashboard", "call", "sent",
                                <<>>, <<>>, FALSE)

\* the handler of the response of the i-th request of dashboard(), and what
\* async.map does with its outcome: the first error completes the call and
\* drops the results, a later outcome is ignored, the last result completes
\* the call
DashboardResponse(c, i) ==
    /\ calls[c].op = "dashboard" /\ calls[c].pc = "dash"
    /\ calls[c].dash[i] = UNDEF
    /\ UNCHANGED <<variant, endpoints, config, auth, actions, menu, clock>>
    /\ calls[c].nErr + calls[c].nOk > 0 =>
          \A j \in DOMAIN calls[c].dash : j < i => calls[c].dash[j] # UNDEF
    /\ LET completed == calls[c].nErr + calls[c].nOk > 0
           answered == {j \in DOMAIN calls[c].dash : calls[c].dash[j] # UNDEF}
           all == answered \cup {i} = DOMAIN calls[c].dash
           pc == IF all THEN "done" ELSE "dash"
           dropped == [j \in DOMAIN calls[c].dash |->
                         IF j <= Cardinality(answered) + 1 THEN ANSWERED
                         ELSE UNDEF]
           Finish(errs, oks, outcome, dash) ==
               /\ calls' = [Upd(c, pc, errs, oks, <<>>)
                              EXCEPT ![c].dash = dash]
               /\ last' = Event(c, "dashboard", "dash", outcome,
                                errs, oks, FALSE)
       IN
       \/ \E e \in TransportErrors :
            Finish(IF completed THEN <<>> ELSE <<e>>, <<>>, "error", dropped)
       \/ \E body \in FailBodies :
            Finish(IF completed THEN <<>>
                   ELSE <<FailureMessage(variant, "dashboard")>>,
                   <<>>, "non200", dropped)
       \/ \E body \in {DashboardBody(i)} :
            LET results == [calls[c].dash EXCEPT ![i] = body]
            IN Finish(<<>>,
                      IF all /\ ~completed
                      THEN <<DashboardResult(results)>> ELSE <<>>,
                      "200", IF completed THEN dropped ELSE results)

\* dashboardLogin(auth, callback), called with an auth object of the
\* documented shape (validator.validateAuth and t3util.signinOptions are not
\* in the sources): the endpoint check, this.auth = auth, then the POST. The
\* call keeps in authz the AuthToken that was stored when it was made, which
\* the code does not keep
DashboardLogin(c, a) ==
    /\ "dashboardLogin" \in Operations(variant)
    /\ UNCHANGED <<variant, endpoints, config, actions, menu, clock>>
    /\ LET err == ValidateStringError(endpoints.login_db, "login_db endpoint")
       IN IF err # ""
          THEN /\ c = 1
               /\ last' = Thrown("dashboardLogin", err)
               /\ calls' = Live
               /\ auth' = auth
          ELSE /\ FirstFree(c)
               /\ auth' = a
               /\ calls' = [Live EXCEPT ![c] =
                    [NewCall("dashboardLogin", "signin", <<"signin">>)
                       EXCEPT !.authz = auth]]
               /\ last' = Event(c, "dashboardLogin", "call", "sent",
                                <<>>, <<>>, FALSE)

\* the handler of the signin response: a 302 whose Location does not include
\* 'forbidden' sets the dashboard endpoint to the protocol and the host of
\* the login_db endpoint (what comes before its path) followed by the Location
DashboardLoginResponse(c) ==
    /\ calls[c].op = "dashboardLogin" /\ calls[c].pc = "signin"
    /\ UNCHANGED <<variant, config, auth, actions, menu, clock>>
    /\ LET LOCATION == <<"L","o","c","a","t","i","o","n">>
           FORBIDDEN == <<"f","o","r","b","i","d","d","e","n">>
           Includes(s, part) ==
               \E i \in 1..(Len(s) - Len(part) + 1) :
                   SubSeq(s, i, i + Len(part) - 1) = part
           Origin(s) ==
               SubSeq(s, 1, (CHOOSE i \in 1..(Len(s) + 1) :
                               /\ i = Len(s) + 1 \/ s[i] = "/"
                               /\ \A j \in 1..(i - 1) : s[j] # "/") - 1)
           Finish(pc, errs, oks, outcome, uncaught, location) ==
               /\ calls' = Upd(c, pc, errs, oks, <<>>)
               /\ last' = [Event(c, "dashboardLogin", "signin", outcome,
                                 errs, oks, uncaught)
                             EXCEPT !.body = location]
       IN
       \/ \E e \in TransportErrors :
            /\ Finish("done", <<e>>, <<>>, "error", FALSE, UNDEF)
            /\ UNCHANGED endpoints
       \/ \E status \in StatusCodes :
            /\ Finish("done", <<"Signin protocol error">>, <<>>, "non302",
                      FALSE, UNDEF)
            /\ UNCHANGED endpoints
       \/ \E h \in { <<>>,
                      <<Header(ToLowerCase(LOCATION), <<"/","d">>)>>,
                      <<Header(LOCATION, <<"/">> \o FORBIDDEN \o <<"/">>)>> } :
            LET location == InsensitiveGet(h, LOCATION)
            IN IF location = UNDEF
               THEN /\ Finish("crashed", <<>>, <<>>, "302", TRUE, location)
                    /\ UNCHANGED endpoints
               ELSE IF Includes(location.s, FORBIDDEN)
               THEN /\ Finish("done", <<"Signin failed">>, <<>>, "302", FALSE,
                              location)
                    /\ UNCHANGED endpoints
               ELSE /\ Finish("done", <<>>, <<UNDEF>>, "302", FALSE, location)
                    /\ endpoints' = [endpoints EXCEPT !.dashboard =
                          Str(Origin(endpoints.login_db.s) \o location.s)]

\* the credentials of the callers that log in: the caller whose call takes
\* slot c logs in as Credentials[c] (the callers take turns)
CredentialList ==
    <<[username |-> Str(<<"u","n">>), password |-> Str(<<"p","w">>)],
      [username |-> Str(<<" ","u","2">>), password |-> Str(<<"p","2"," ">>)]>>
Credentials(c) == CredentialList[((c - 1) % Len(CredentialList)) + 1]

\* the arguments of a caller that passes valid ones
GoodStrings == {GoodString}
GoodCounts == {Num(1)}
GoodPdfs == {Bool(TRUE), Bool(FALSE)}

\* login, called with valid arguments
NextLogin ==
    \/ \E c \in Slots : \E cr \in {Credentials(c)} :
          Login(c, cr.username, cr.password)
    \/ \E c \in Slots : LoginRound1(c)
    \/ \E c \in Slots : LoginRound2(c)

\* the calls that need a login, made with valid arguments
NextAccount ==
    \/ \E c \in Slots : GetAccount(c)
    \/ \E c \in Slots : \E n \in GoodCounts : \E b \in GoodPdfs :
          GetStatements(c, n, b)
    \/ \E c \in Slots : GetResponse(c)
    \/ \E c \in Slots : Dashboard(c)
    \/ \E c \in Slots : \E i \in DOMAIN DashboardEndpoints :
          DashboardResponse(c, i)

NextAuth == NextLogin \/ NextAccount

\* the touchmap and the search, made with valid arguments
NextTouchmap ==
    \/ \E c \in Slots : RefreshTouchmap(c)
    \/ \E c \in Slots : \E q \in GoodStrings : Search(c, q)
    \/ \E c \in Slots : TouchmapResponse(c)
    \/ \E c \in Slots : SearchResponse(c)

\* every call, made with any arguments (of those of login one at least is
\* a valid one)
NextCalls ==
    \/ \E c \in Slots : \E u, p \in ArgValues :
          (u = GoodString \/ p = GoodString) /\ Login(c, u, p)
    \/ \E c \in Slots : \E n \in CountValues : \E b \in PdfValues :
          GetStatements(c, n, b)
    \/ \E c \in Slots : \E q \in ArgValues : Search(c, q)
    \/ \E c \in Slots : \E a \in {TokenA, EmptyToken} : DashboardLogin(c, a)
    \/ \E c \in Slots : DashboardLoginResponse(c)

Next == NextAuth \/ NextTouchmap \/ NextCalls

Spec == Init /\ [][Next]_vars
SpecAuth == Init /\ [][NextAuth]_vars
SpecLogin == Init /\ [][NextLogin]_vars

\* the values this.auth may have when no login is in flight: undefined, or
\* what a completed login has stored
AuthValues ==
    {UNDEF} \cup {StoreAuth(body) : body \in LoginBodies}

\* a client that offers getAccount, after any logins
InitAccount ==
    /\ Quiescent
    /\ "getAccount" \in Operations(variant)
    /\ auth \in AuthValues

SpecAccount == InitAccount /\ [][NextAccount]_vars
SpecTouchmap == Init /\ [][NextTouchmap]_vars

\* a caller that makes one call at a time: a login with any of the
\* credentials, or an account lookup
NextLookups ==
    IF \A d \in Slots : Live[d].pc = "free"
    THEN \E c \in Slots :
            \/ \E i \in DOMAIN CredentialList :
                  Login(c, CredentialList[i].username,
                        CredentialList[i].password)
            \/ GetAccount(c)
            \/ \E n \in GoodCounts : \E b \in GoodPdfs : GetStatements(c, n, b)
    ELSE \E c \in Slots :
            LoginRound1(c) \/ LoginRound2(c) \/ GetResponse(c)
SpecLookups == Init /\ [][NextLookups]_vars

\* a client of any configuration: the endpoints of the SmartCare classes
\* are optional, those of T3Service are required
InitSerial ==
    /\ variant \in Variants
    /\ config \in Configs
    /\ auth = UNDEF /\ actions = UNDEF /\ menu = UNDEF
    /\ clock = 0
    /\ calls = [c \in Slots |-> FreeCall]
    /\ last = Event(0, "none", "init", "none", <<>>, <<>>, FALSE)
    /\ endpoints \in
          InitialEndpoints(variant)
            \cup (IF variant = "t3services" THEN {}
                  ELSE {[login |-> l, search |-> s, account |-> Url,
                         dashboard |-> UNDEF, login_db |-> UNDEF] :
                           l, s \in {UNDEF, Url}})

\* a caller that makes one call at a time, of any operation and with any
\* arguments: a call starts when no call is in flight
NextSerial ==
    IF \A d \in Slots : Live[d].pc = "free"
    THEN Next
    ELSE \E c \in Slots :
            \/ LoginRound1(c) \/ LoginRound2(c)
            \/ TouchmapResponse(c) \/ SearchResponse(c)
            \/ GetResponse(c)
            \/ \E i \in DOMAIN DashboardEndpoints : DashboardResponse(c, i)
            \/ DashboardLoginResponse(c)
SpecSerial == InitSerial /\ [][NextSerial]_vars

\* ================================================================= claims
\* the step that has just been taken is the second-response handler of a
\* login
Round2Step(e) == e.op = "login" /\ e.stage = "round2"

\* the challenge a login received is a well-formed 'T3Auth ...' value
WellFormedChallenge(call) ==
    /\ call.authz # UNDEF
    /\ IsStr(call.authz.challenge)
    /\ MatchesT3Auth(call.authz.challenge.s)

\* the body carries a non-empty T3Token
HasToken(body) ==
    /\ body # UNDEF
    /\ "T3Token" \in DOMAIN body
    /\ IsStr(body.T3Token)
    /\ body.T3Token.s # <<>>

\* the case of C1: a login with a well-formed challenge has just received
\* status 200 and a body with a non-empty T3Token
C1_Case ==
    /\ Round2Step(last)
    /\ last.outcome = "200"
    /\ WellFormedChallenge(calls[last.slot])
    /\ HasToken(last.body)

\* C1: a login that received a well-formed challenge and then status 200
\* with a body holding a non-empty T3Token ends with isAuthenticated true,
\* with the stored AuthToken holding the fields of that body, and with the
\* body delivered on the success channel (and nothing on the error channel).
C1_LoginSucceeds ==
    C1_Case =>
        /\ IsAuthenticated(auth)
        /\ DOMAIN auth = DOMAIN last.body
        /\ \A k \in DOMAIN last.body : auth[k] = last.body[k]
        /\ last.oks = <<last.body>>
        /\ last.errs = <<>>

C1_Witness == C1_Case /\ IsAuthenticated(auth) /\ calls[last.slot].nOk = 1

\* C2: when the first response carries no WWW-Authenticate header or a value
\* that is no 'T3Auth ' challenge, the login reports 'Challenge not found' on
\* the error channel, and no later step of that login changes the stored
\* AuthToken, whatever the transport answers.
C2_NoChallengeKeepsAuth ==
    [][/\ last'.outcome = "nochallenge"
          => last'.errs = <<"Challenge not found">>
       /\ \A c \in Slots :
            (/\ calls[c].op = "login"
             /\ calls[c].pc = "round2"
             /\ ~WellFormedChallenge(calls[c])
             /\ last'.slot = c)
            => auth' = auth]_vars

\* C3: the second POST of a login is issued only after the first POST
\* returned without transport error and with a well-formed challenge: a
\* login that has issued two requests has received a well-formed challenge.
C3_SecondPostNeedsChallenge ==
    \A c \in Slots :
        (calls[c].op = "login" /\ Len(calls[c].sent) >= 2)
        => WellFormedChallenge(calls[c])

\* C4: a login uses its completion channel at most once: neither channel is
\* invoked twice, and never both.
C4_LoginCompletesOnce ==
    \A c \in Slots :
        calls[c].op = "login" => calls[c].nErr + calls[c].nOk <= 1

\* C5: when the client holds an AuthToken and a login ends with a transport
\* error or another status than 200 in its second round, that step leaves
\* the stored AuthToken and isAuthenticated as they were.
C5_FailedLoginKeepsToken ==
    [][(/\ Truthy(auth)
        /\ Round2Step(last')
        /\ last'.outcome \in {"error", "non200"})
       => (/\ auth' = auth
           /\ IsAuthenticated(auth') = IsAuthenticated(auth))]_vars

\* the calls that need a login
NeedLogin == {"getAccount", "getStatements", "dashboard"}

\* C6: while isAuthenticated is false, a call of getAccount, getStatements
\* or dashboard with valid arguments (and a configured endpoint) throws
\* 'An active login is required', issues no request and invokes no callback.
C6_LoginRequired ==
    [][(/\ last'.stage = "call"
        /\ last'.op \in NeedLogin
        /\ ~IsAuthenticated(auth)
        /\ Truthy(endpoints.account)
        /\ (last'.op = "dashboard" => Truthy(endpoints.dashboard)))
       => (/\ last'.outcome = "throw"
           /\ last'.thrown = LOGIN_REQUIRED
           /\ last'.errs = <<>>
           /\ last'.oks = <<>>
           /\ calls' = Live)]_vars

C6_Witness ==
    /\ last.op = "dashboard"
    /\ last.outcome = "throw"
    /\ last.thrown = LOGIN_REQUIRED
    /\ auth # UNDEF
    /\ ~IsAuthenticated(auth)

\* C7: a search() called while hasActions is false issues exactly one
\* touch-map GET and issues the search GET only when that refresh has
\* succeeded; a search() called while hasActions is true issues the search
\* GET at once and no touch-map GET.
C7_ColdSearchRefreshesOnce ==
    [][\A c \in Slots :
         /\ (/\ variant \in {"smartcare", "index"}
             /\ last'.op = "search"
             /\ last'.stage = "call"
             /\ last'.outcome = "sent"
             /\ last'.slot = c)
            => calls'[c].sent = IF HasActions(actions) THEN <<"simple">>
                                ELSE <<"touch-map">>
         /\ (/\ variant \in {"smartcare", "index"}
             /\ calls[c].op = "search"
             /\ calls[c].pc = "touchmap"
             /\ calls'[c].op = "search"
             /\ calls'[c].sent # calls[c].sent)
            => (/\ calls'[c].sent = <<"touch-map", "simple">>
                /\ last'.slot = c
                /\ last'.stage = "touchmap"
                /\ last'.outcome = "200"
                /\ ~last'.uncaught)]_vars

\* the refresh that a search() started has just failed
C8_Case ==
    /\ last.op = "search"
    /\ last.stage = "touchmap"
    /\ last.outcome \in {"error", "non200"}

\* C8: when the refresh that a search() started on a cold cache ends in a
\* transport error or another status than 200, the search reports that one
\* error (the transport's error, or 'Touchmap refresh failed'), its search
\* request is never issued, its success channel is not invoked, and the
\* cache is left as it was.
C8_FailedRefreshAbortsSearch ==
    [][\A c \in Slots :
         (/\ calls[c].op = "search"
          /\ calls[c].pc = "touchmap"
          /\ last'.slot = c
          /\ C8_Case')
         => (/\ \/ /\ last'.outcome = "error"
                   /\ \E e \in TransportErrors : last'.errs = <<e>>
                \/ /\ last'.outcome = "non200"
                   /\ last'.errs = <<"Touchmap refresh failed">>
             /\ last'.oks = <<>>
             /\ calls'[c].sent = <<"touch-map">>
             /\ calls'[c].pc = "done"
             /\ calls'[c].nErr = 1
             /\ calls'[c].nOk = 0
             /\ actions' = actions
             /\ HasActions(actions') = HasActions(actions))]_vars

C8_Witness ==
    /\ C8_Case
    /\ ~HasActions(actions)
    /\ calls[last.slot].nErr = 1
    /\ calls[last.slot].sent = <<"touch-map">>

\* the cache holds an Action object under the name n
Cached(cache, n) ==
    /\ Truthy(cache)
    /\ n \in DOMAIN cache
    /\ "Name" \in DOMAIN cache[n]

\* a search of the handler-pair client has just received status 200 and a
\* body with a list of results
SearchDelivered ==
    /\ variant = "smartcare"
    /\ last.op = "search"
    /\ last.stage = "simple"
    /\ last.outcome = "200"
    /\ last.body # UNDEF
    /\ "Results" \in DOMAIN last.body

\* C9: in a successful search every result whose Action is a name that the
\* cache holds is delivered with Action replaced by the cached Action object
\* of that name, and every result whose Action is already an object is
\* delivered unchanged.
C9_KnownNamesResolved ==
    SearchDelivered =>
        /\ Len(last.oks) = 1
        /\ DOMAIN last.oks[1].Results = DOMAIN last.body.Results
        /\ \A i \in DOMAIN last.body.Results :
             LET r == last.body.Results[i]
                 d == last.oks[1].Results[i]
             IN /\ (IsName(r.Action) /\ Cached(actions, r.Action.n))
                   => (/\ d.Action = actions[r.Action.n]
                       /\ d.Confidence = r.Confidence)
                /\ (TypeOf(r.Action) = "object" => d = r)

C9_Witness ==
    /\ SearchDelivered
    /\ Len(last.oks) = 1
    /\ \E i \in DOMAIN last.body.Results :
         /\ IsName(last.body.Results[i].Action)
         /\ Cached(actions, last.body.Results[i].Action.n)
         /\ last.oks[1].Results[i].Action =
               actions[last.body.Results[i].Action.n]
    /\ \E i \in DOMAIN last.body.Results :
         TypeOf(last.body.Results[i].Action) = "object"

\* C10: in a successful search every result whose Action is a name that the
\* cache does not hold is delivered with Action still that name, and the
\* search completes on the success channel.
C10_UnknownNamesKept ==
    SearchDelivered =>
        /\ Len(last.oks) = 1
        /\ last.errs = <<>>
        /\ \A i \in DOMAIN last.body.Results :
             LET r == last.body.Results[i]
             IN (IsName(r.Action) /\ ~Cached(actions, r.Action.n))
                => last.oks[1].Results[i].Action = r.Action

\* C11: a touch-map response that stamps a refreshTime leaves a cache that
\* holds an entry for every action of that response: the step that assigns
\* this.actions is the step of a 200 response with a list of Actions, every
\* one of them cached, and its handler runs to its end.
C11_CacheAbsentOrFull ==
    [][actions' # actions
       => (/\ last'.stage = "touchmap"
           /\ last'.outcome = "200"
           /\ ~last'.uncaught
           /\ HasActions(actions')
           /\ "Actions" \in DOMAIN last'.body
           /\ \A i \in DOMAIN last'.body.Actions :
                Cached(actions', last'.body.Actions[i].Name))]_vars

\* a touch-map response with status 200 has just been handled to the end
RefreshDone ==
    /\ last.stage = "touchmap"
    /\ last.outcome = "200"
    /\ ~last.uncaught

\* the names of the actions of a touch-map body
ActionNames(body) == {body.Actions[i].Name : i \in DOMAIN body.Actions}

\* C12: after a touch-map response with status 200 the cache maps exactly
\* the action names of that response, each to an Action object of the
\* response with that name, and carries the refreshTime of this refresh.
C12_CacheReplacedWhole ==
    RefreshDone =>
        /\ DOMAIN actions = ActionNames(last.body) \cup {"refreshTime"}
        /\ \A n \in ActionNames(last.body) \ {"refreshTime"} :
             \E i \in DOMAIN last.body.Actions : actions[n] = last.body.Actions[i]
        /\ actions.refreshTime = Date(clock)

\* a refreshTouchmap() has just ended in a transport error or in a status
\* other than 200
RefreshFailed ==
    /\ last.op = "refreshTouchmap"
    /\ last.stage = "touchmap"
    /\ last.outcome \in {"error", "non200"}

\* C13: the step in which a refreshTouchmap ends in a transport error or in
\* a status other than 200 leaves the action cache with its refreshTime and
\* the menu as they were, so hasActions and hasMenu keep their values.
C13_FailedRefreshKeepsCache ==
    [][RefreshFailed'
       => (/\ actions' = actions
           /\ menu' = menu
           /\ HasActions(actions') = HasActions(actions)
           /\ HasMenu(menu', actions') = HasMenu(menu, actions))]_vars

C13_Witness ==
    /\ RefreshFailed
    /\ HasActions(actions)
    /\ HasMenu(menu, actions)
    /\ calls[last.slot].nErr = 1

\* the cache holds the content of a touch-map body: the names of its
\* actions, each with an Action of the body of that name
HoldsContentOf(cache, body) ==
    /\ DOMAIN cache \ {"refreshTime"} = ActionNames(body) \ {"refreshTime"}
    /\ \A n \in ActionNames(body) :
         \E i \in DOMAIN body.Actions : cache[n] = body.Actions[i]

\* C14: searches on a cold cache are not coordinated.  A search() called
\* while the cache is cold issues a touch-map GET of its own, also when
\* another call has a refresh in flight, and leaves the other calls alone;
\* when the refresh of a search succeeds, that search (and no other call)
\* issues its search request, and the cache holds the content of the
\* response handled in that step, whatever was cached before.
C14_UncoordinatedRefreshes ==
    [][\A c \in Slots :
         /\ (/\ variant = "smartcare"
             /\ last'.op = "search"
             /\ last'.stage = "call"
             /\ last'.outcome = "sent"
             /\ last'.slot = c
             /\ ~HasActions(actions))
            => (/\ calls'[c].sent = <<"touch-map">>
                /\ \A d \in Slots \ {c} : calls'[d] = Live[d])
         /\ (/\ variant = "smartcare"
             /\ calls[c].op = "search"
             /\ calls[c].pc = "touchmap"
             /\ last'.slot = c
             /\ RefreshDone')
            => (/\ calls'[c].sent = <<"touch-map", "simple">>
                /\ \A d \in Slots \ {c} : calls'[d] = Live[d]
                /\ HoldsContentOf(actions', last'.body))]_vars

\* two searches were called on a cold cache, both refreshes have succeeded,
\* the second of them in the last step, and both search requests are out
C14_Witness ==
    /\ variant = "smartcare"
    /\ RefreshDone
    /\ last.op = "search"
    /\ calls[last.slot].sent = <<"touch-map", "simple">>
    /\ \E d \in Slots \ {last.slot} :
         /\ calls[d].op = "search"
         /\ calls[d].pc = "simple"
         /\ calls[d].sent = <<"touch-map", "simple">>
    /\ HoldsContentOf(actions, last.body)

\* C15: every request a client issues carries the same SessionID header:
\* the requests of the calls in flight all carry one value.
C15_OneSessionPerClient ==
    \A c, d \in Slots :
        \A i \in DOMAIN calls[c].sids : \A j \in DOMAIN calls[d].sids :
            calls[c].sids[i] = calls[d].sids[j]

\* C16: within one login the second POST goes to the same URL with the same
\* JSON body {ID, Password, AdditionalValuesVersion: '2'} and the same
\* SessionID, CustomerID and ApplicationID headers as the first POST; the
\* only difference between the two requests is the added Authorization header.
C16_SecondPostSameRequest ==
    \A c \in Slots :
        (calls[c].op = "login" /\ Len(calls[c].posts) = 2) =>
            LET first == calls[c].posts[1]
                second == calls[c].posts[2]
            IN /\ second.url = first.url
               /\ second.json = first.json
               /\ DOMAIN second.json = {"ID", "Password", "AdditionalValuesVersion"}
               /\ second.json.AdditionalValuesVersion = Str(<<"2">>)
               /\ "Authorization" \notin DOMAIN first.headers
               /\ DOMAIN second.headers = DOMAIN first.headers \cup {"Authorization"}
               /\ \A h \in DOMAIN first.headers : second.headers[h] = first.headers[h]
               /\ DOMAIN first = DOMAIN second

C16_Witness ==
    /\ last.op = "login" /\ last.stage = "round1"
    /\ Len(calls[last.slot].posts) = 2
    /\ ~Truthy(config.sessionId)
    /\ calls[last.slot].posts[2].json.ID = Str(<<"u","2">>)

\* C17: the Authorization header of the second login POST is exactly the
\* challenge received in WWW-Authenticate, followed by `, token="`, the
\* derived token and a closing double quote.
DoubleQuote == AsciiLow[3]
QuotedAuthorization(challenge, token) ==
    Str(challenge.s \o <<",", " ", "t", "o", "k", "e", "n", "=", DoubleQuote>>
          \o token.s \o <<DoubleQuote>>)
C17_TokenInQuotes ==
    \A c \in Slots :
        (/\ calls[c].op = "login"
         /\ Len(calls[c].posts) = 2
         /\ IsStr(calls[c].authz.challenge)) =>
            calls[c].posts[2].headers.Authorization =
                QuotedAuthorization(
                    calls[c].authz.challenge,
                    Token(config, calls[c].posts[2].headers.SessionID))

\* C18: the token in the Authorization header of a login depends on the
\* secret, the application, the customer and the session ID only: two logins
\* that send the same session ID under one configuration send the same token,
\* whatever their username, password, challenge and the stored state, and the
\* token of a configuration does not depend on its other fields.
TokenSent(c) ==
    LET header == calls[c].posts[2].headers.Authorization.s
        n == Len(StringOf(calls[c].authz.challenge)) + 8
    IN SubSeq(header, n + 1, Len(header))
SecondPostSent(c) == calls[c].op = "login" /\ Len(calls[c].posts) = 2
C18_TokenOfFourValues ==
    /\ \A r1, r2 \in Tokens :
        (/\ r1.config.secret = r2.config.secret
         /\ r1.config.app = r2.config.app
         /\ r1.config.customer = r2.config.customer
         /\ r1.sessionId = r2.sessionId) => r1.token = r2.token
    /\ \A c, d \in Slots :
        (/\ SecondPostSent(c) /\ SecondPostSent(d)
         /\ calls[c].posts[2].headers.SessionID
              = calls[d].posts[2].headers.SessionID) =>
            /\ Len(TokenSent(c)) = 28
            /\ TokenSent(c) = TokenSent(d)
C18_Witness ==
    /\ auth # UNDEF
    /\ \E c, d \in Slots :
        /\ SecondPostSent(c) /\ SecondPostSent(d)
        /\ calls[c].posts[2].headers.SessionID
             = calls[d].posts[2].headers.SessionID
        /\ calls[c].posts[2].json.ID # calls[d].posts[2].json.ID
        /\ calls[c].posts[2].json.Password # calls[d].posts[2].json.Password
        /\ calls[c].authz.challenge # calls[d].authz.challenge
        /\ IsStr(calls[c].authz.challenge) /\ IsStr(calls[d].authz.challenge)

\* C19: createToken returns the Base64 text of the SHA-1 digest of the UTF-8
\* bytes of secret + ' ' + app + ':' + customer + ':' + sessionId; for the
\* secret 'secret', the application 'Mocha', the customer 'Tester' and the
\* session ID '15344b6f-2131-2fa9-994e-c69103be9859' that text is
\* '0OyW0ObuyVmHzSAcOQt9dzjF4w8=', and a login of that client sends it.
TokenRaw(cfg, sessionId) ==
    cfg.secret.s \o <<" ">> \o cfg.app.s \o <<":">> \o cfg.customer.s
      \o <<":">> \o sessionId.s
TestVector(cfg, sessionId) ==
    /\ cfg.secret = Str(<<"s", "e", "c", "r", "e", "t">>)
    /\ cfg.app = Str(<<"M", "o", "c", "h", "a">>)
    /\ cfg.customer = Str(<<"T", "e", "s", "t", "e", "r">>)
    /\ sessionId = Str(SESSION)
TokenComputed ==
    <<"0", "O", "y", "W", "0", "O", "b", "u", "y", "V", "m", "H", "z", "S", "A", "c", "O", "Q", "t", "9", "d", "z", "j", "F", "4", "w", "8", "=">>
TokenExpected ==
    <<"I", "X", "2", "y", "+", "8", "i", "g", "k", "6", "n", "C", "N", "3", "i", "A", "w", "7", "7", "t", "P", "o", "O", "T", "x", "7", "4", "=">>
TokensAreDigests ==
    \A r \in Tokens :
        r.token = Str(Base64Stringify(SHA1(Utf8Parse(TokenRaw(r.config, r.sessionId)))))
CreateTokenReturns(token) ==
    /\ TokensAreDigests
    /\ \A r \in Tokens :
        TestVector(r.config, r.sessionId) => r.token = Str(token)
    /\ \A c \in Slots :
        (/\ SecondPostSent(c)
         /\ TestVector(config, calls[c].posts[2].headers.SessionID)) =>
            TokenSent(c) = token
AccountRequestSent ==
    /\ last.op \in {"getAccount", "getStatements"}
    /\ last.stage = "call" /\ last.outcome = "sent"
CommaJoined(items, chars) ==
    /\ Len(chars) = 2 * Len(items) - 1
    /\ \A i \in DOMAIN chars :
        chars[i] = IF i % 2 = 1 THEN items[(i + 1) \div 2] ELSE ","
C20_AuthHeaders ==
    AccountRequestSent =>
        LET headers == calls[last.slot].posts[1].headers
            values == auth.AdditionalValues
            listed == "AdditionalValues" \in DOMAIN auth /\ Len(values) > 0
        IN /\ headers.UserID = auth.Value
           /\ headers.UserName = auth.Value
           /\ headers.T3Token = auth.T3Token
           /\ "AdditionalValues" \in DOMAIN headers <=> listed
           /\ listed => /\ IsStr(headers.AdditionalValues)
                         /\ CommaJoined(values, headers.AdditionalValues.s)
C20_Witness ==
    /\ AccountRequestSent
    /\ last.op = "getStatements"
    /\ Len(auth.AdditionalValues) = 2
    /\ calls[last.slot].posts[1].headers.AdditionalValues = Str(<<"k1", ",", "k2">>)

\* C21: a final response with a status other than 200 is reported on the
\* error channel, never on the success channel, with the message of the
\* operation: 'Authentication failed' (second round of login), 'Touchmap
\* refresh failed' (refreshTouchmap), 'Search failed' (search), 'Account
\* lookup failed' (getAccount), 'Statement lookup failed' (getStatements),
\* 'Dashboard refresh failed' (dashboard, unless the call had failed before).
DocumentedMessage(op) ==
    CASE op = "login" -> "Authentication failed"
      [] op = "refreshTouchmap" -> "Touchmap refresh failed"
      [] op = "search" -> "Search failed"
      [] op = "getAccount" -> "Account lookup failed"
      [] op = "getStatements" -> "Statement lookup failed"
      [] op = "dashboard" -> "Dashboard refresh failed"
FinalStage(op) ==
    CASE op = "login" -> "round2"
      [] op = "refreshTouchmap" -> "touchmap"
      [] op = "search" -> "simple"
      [] op = "getAccount" -> "get"
      [] op = "getStatements" -> "get"
      [] op = "dashboard" -> "dash"
      [] OTHER -> "none"
FinalNon200 == last.outcome = "non200" /\ last.stage = FinalStage(last.op)
C21_Non200Message ==
    FinalNon200 =>
        /\ last.oks = <<>>
        /\ \/ last.errs = <<DocumentedMessage(last.op)>>
           \/ /\ last.op = "dashboard" /\ last.errs = <<>>
              /\ calls[last.slot].nErr = 1

\* C22: when the transport reports an error for a request, the error
\* delivered is that transport error and no literal message, nothing is
\* delivered on the success channel, and the step issues no request (a
\* dashboard request that fails after the call has failed delivers nothing).
C22_TransportErrorPassedOn ==
    [][last'.outcome = "error" =>
        LET c == last'.slot
        IN /\ last'.oks = <<>>
           /\ \/ \E e \in TransportErrors : last'.errs = <<e>>
              \/ /\ last'.op = "dashboard" /\ last'.errs = <<>>
                 /\ calls[c].nErr = 1
           /\ calls'[c].nErr = calls[c].nErr + Len(last'.errs)
           /\ calls'[c].sent = calls[c].sent
           /\ calls'[c].pc \in Terminal \cup {"dash"}]_vars
C22_Witness ==
    /\ last.op = "search" /\ last.stage = "touchmap"
    /\ last.outcome = "error" /\ last.errs = <<"ETIMEDOUT">>
    /\ calls[last.slot].sent = <<"touch-map">>

\* C23: login called with a username or a password that is null, undefined,
\* empty, made of white space or no string, or on a client without a login
\* endpoint, and search called with such a query or on a client without a
\* search endpoint, throw: the call issues no request and delivers nothing,
\* and the stored AuthToken, the cache and the menu are as before.
BadString(v) ==
    \/ v = NULL \/ v = UNDEF
    \/ ~IsStr(v)
    \/ \A i \in DOMAIN v.s : v.s[i] \in WhiteSpace
BadCall(e) ==
    \/ \E i \in DOMAIN e.args : BadString(e.args[i])
    \/ e.op = "login" /\ endpoints.login = UNDEF
    \/ e.op = "search" /\ endpoints.search = UNDEF
C23_BadCallThrows ==
    [][(last'.stage = "call" /\ last'.op \in {"login", "search"}
          /\ BadCall(last')) =>
        /\ last'.outcome = "throw"
        /\ last'.errs = <<>> /\ last'.oks = <<>>
        /\ \A d \in Slots : calls'[d] = Live[d]
        /\ UNCHANGED <<auth, actions, menu>>]_vars
C23_Witness ==
    /\ last.op = "login" /\ last.outcome = "throw"
    /\ last.args = <<GoodString, Str(<<" ", "\t">>)>>
    /\ IsAuthenticated(auth) /\ HasActions(actions)

\* C24: the challenge is looked up without regard to the case of the header
\* name: insensitiveGet returns the value of the first property whose name
\* equals the name asked for when case is ignored, and undefined when there
\* is none; under every casing of WWW-Authenticate a 'T3Auth ...' value is
\* found, the login issues its second POST, and the Authorization header of
\* that POST starts with the value.
SameIgnoringCase(a, b) ==
    /\ Len(a) = Len(b)
    /\ \A i \in DOMAIN a :
        \/ a[i] = b[i]
        \/ \E k \in DOMAIN UpperChars :
              {a[i], b[i]} = {UpperChars[k], LowerChars[k]}
Named(h, name) == {i \in DOMAIN h : SameIgnoringCase(h[i].name, name)}
LookupIgnoresCase ==
    \A h \in ResponseHeaders :
        LET found == Named(h, WWW_AUTHENTICATE)
            value == InsensitiveGet(h, WWW_AUTHENTICATE)
        IN /\ found = {} => value = UNDEF
           /\ found # {} =>
                /\ value = h[CHOOSE i \in found : \A j \in found : i <= j].value
                /\ \E r \in ChallengeLookups :
                      r.authHeader = value
                        /\ r.missing = ~MatchesT3Auth(value.s)
C24_ChallengeFoundInAnyCase ==
    /\ LookupIgnoresCase
    /\ (last.op = "login" /\ last.stage = "round1"
          /\ last.outcome = "challenge") =>
        LET call == calls[last.slot]
            n == Len(call.authz.challenge.s)
        IN /\ call.pc = "round2" /\ Len(call.posts) = 2
           /\ \E h \in ResponseHeaders :
                 InsensitiveGet(h, WWW_AUTHENTICATE) = call.authz.challenge
           /\ MatchesT3Auth(call.authz.challenge.s)
           /\ SubSeq(call.posts[2].headers.Authorization.s, 1, n)
                = call.authz.challenge.s
C24_Witness ==
    /\ last.op = "login" /\ last.stage = "round1"
    /\ last.outcome = "challenge"
    /\ calls[last.slot].authz.challenge = Str(T3AUTH_LOWER)
    /\ Cardinality(ResponseHeaders) > 100

\* C25: isAuthenticated is false on a fresh client and is true exactly when
\* an AuthToken is stored whose T3Token is a string that is not empty; a
\* login whose second response has status 200 and a body without a T3Token,
\* or with a null or an empty one, leaves isAuthenticated false.
TokenStored(a) ==
    /\ a # UNDEF
    /\ "T3Token" \in DOMAIN a
    /\ IsStr(a.T3Token)
    /\ a.T3Token.s # <<>>
LoginCompleted200 ==
    last.op = "login" /\ last.stage = "round2" /\ last.outcome = "200"
C25_IsAuthenticated ==
    /\ auth = UNDEF => ~IsAuthenticated(auth)
    /\ IsAuthenticated(auth) <=> TokenStored(auth)
    /\ (LoginCompleted200 /\ last.body \in {NoToken, EmptyToken, NullToken})
         => ~IsAuthenticated(auth)
    /\ (LoginCompleted200 /\ last.body \in {TokenA, TokenB})
         => IsAuthenticated(auth)
C25_Witness ==
    /\ LoginCompleted200
    /\ last.body = EmptyToken
    /\ auth = StoreAuth(EmptyToken)
    /\ ~IsAuthenticated(auth)

\* C26: hasActions and hasMenu are true after a refreshTouchmap has
\* succeeded, and once true they stay true through every later step of the
\* client: there is no expiry.
RefreshSucceeded(e) ==
    /\ e.op = "refreshTouchmap" /\ e.stage = "touchmap"
    /\ e.outcome = "200" /\ e.oks # <<>>
C26_MenuAndActionsStay ==
    [][/\ HasActions(actions) => HasActions(actions')
       /\ HasMenu(menu, actions) => HasMenu(menu', actions')
       /\ RefreshSucceeded(last') =>
            HasActions(actions') /\ HasMenu(menu', actions')]_vars

\* C27: the stored AuthToken changes only in the step in which the second
\* round of a login completes with status 200, and in no step of
\* refreshTouchmap, search, getAccount, getStatements, dashboard or
\* dashboardLogin; the touchmap cache and the menu change only in the step
\* in which a touch-map GET completes with status 200.
C27_StateChangesOnlyOnSuccess ==
    [][/\ auth' # auth =>
            /\ last'.op = "login" /\ last'.stage = "round2"
            /\ last'.outcome = "200"
       /\ (actions' # actions \/ menu' # menu) =>
            /\ last'.op \in {"refreshTouchmap", "search"}
            /\ last'.stage = "touchmap" /\ last'.outcome = "200"]_vars
\* the part of C27 about the cache and the menu
C27_CacheChangesOnlyOnSuccess ==
    [][(actions' # actions \/ menu' # menu) =>
            /\ last'.op \in {"refreshTouchmap", "search"}
            /\ last'.stage = "touchmap" /\ last'.outcome = "200"]_vars
\* the part of C27 about the AuthToken, on the class of src/index.js without
\* dashboardLogin
C27_AuthChangesOnlyOnSuccess ==
    [][(variant # "t3services" /\ last'.op # "dashboardLogin"
          /\ auth' # auth) =>
            /\ last'.op = "login" /\ last'.stage = "round2"
            /\ last'.outcome = "200"]_vars

\* C28: the credentials are not persisted. The stored state after a step is
\* determined by the stored state before it and the response the step
\* handles, whatever the username and the password of the login are; the
\* requests of a login carry the username and the password of that call
\* only, and the requests of the other calls carry none.
CredentialStrings ==
    UNION {{Trim(CredentialList[i].username.s),
            Trim(CredentialList[i].password.s)} : i \in DOMAIN CredentialList}
Carries(headers) ==
    \E f \in DOMAIN headers : \E cr \in CredentialStrings :
        /\ IsStr(headers[f])
        /\ \E i \in 1..(Len(headers[f].s) - Len(cr) + 1) :
              SubSeq(headers[f].s, i, i + Len(cr) - 1) = cr
StoresBody(e) ==
    /\ e.op = "login" /\ e.stage = "round2"
    /\ \/ e.outcome = "200"
       \/ e.outcome = "non200" /\ variant = "t3services"
OneOutcomeOps == {"refreshTouchmap", "search", "getAccount", "getStatements"}
C29_ExactlyOneOutcome ==
    \A c \in Slots :
        calls[c].op \in OneOutcomeOps =>
            /\ calls[c].nErr + calls[c].nOk <= 1
            /\ calls[c].pc \in {"done", "crashed"} =>
                  calls[c].nErr + calls[c].nOk = 1

\* C30: after a successful refresh of the touchmap the menu holds those
\* service items of the response whose Action names an action of the same
\* response, in the order of the response, each with the first action of that
\* name as its Action; the other service items are dropped.
RefreshStored ==
    /\ last.stage = "touchmap" /\ last.outcome = "200" /\ ~last.uncaught
MenuOf(body) ==
    LET items == IF "ServiceItems" \in DOMAIN body THEN body.ServiceItems
                 ELSE <<>>
        acts == IF "Actions" \in DOMAIN body THEN body.Actions ELSE <<>>
        Matches(i) == {k \in DOMAIN acts : acts[k].Name = items[i].Action.n}
        kept == {i \in DOMAIN items : Matches(i) # {}}
        Nth(n) == CHOOSE i \in kept : Cardinality({j \in kept : j < i}) = n - 1
        First(i) == CHOOSE k \in Matches(i) : \A m \in Matches(i) : k <= m
    IN [n \in 1..Cardinality(kept) |->
           [items[Nth(n)] EXCEPT !.Action = acts[First(Nth(n))]]]
C30_MenuFiltered ==
    RefreshStored => menu = Array(MenuOf(last.body))
\* C30 as amended: the class of src/unnamed/part_000 filters the menu, the
\* class of src/index.js stores the service items of the response as they
\* are, and undefined when the response has none
C30_MenuOfVariant ==
    RefreshStored =>
        menu = IF variant = "smartcare" THEN Array(MenuOf(last.body))
               ELSE IF "ServiceItems" \in DOMAIN last.body
               THEN Array(last.body.ServiceItems)
               ELSE UNDEF
C30_Witness ==
    /\ RefreshStored
    /\ variant = "smartcare"
    /\ Len(last.body.ServiceItems) = 3
    /\ Len(menu.items) = 2
    /\ menu.items[1].Action = ActionB

\* C31: the dashboard sign-in reports 'Signin protocol error' for a response
\* whose status is not 302 and 'Signin failed' for a Location that contains
\* 'forbidden'; the dashboard endpoint is set only by a 302 with another
\* Location, to the scheme and the host of the sign-in endpoint followed by
\* the Location; a failed sign-in leaves the dashboard endpoint and the
\* stored AuthToken as they were before the call.
SigninFailed(e) ==
    /\ e.op = "dashboardLogin" /\ e.stage = "signin"
    /\ e.oks = <<>>
C31_SigninOutcome ==
    [][/\ (last'.op = "dashboardLogin" /\ last'.outcome = "non302")
            => last'.errs = <<"Signin protocol error">>
       /\ (last'.op = "dashboardLogin" /\ last'.outcome = "302"
             /\ last'.body \in {Str(<<"/","f","o","r","b","i","d","d","e","n","/">>)})
            => last'.errs = <<"Signin failed">>
       /\ endpoints' # endpoints =>
            /\ last'.op = "dashboardLogin" /\ last'.outcome = "302"
            /\ last'.body = Str(<<"/","d">>)
            /\ endpoints' = [endpoints EXCEPT !.dashboard =
                                Str(Url.s \o <<"/","d">>)]
       /\ SigninFailed(last') =>
            /\ endpoints' = endpoints
            /\ auth' = calls[last'.slot].authz]_vars
\* the parts of C31 about the messages and the dashboard endpoint
C31_SigninEndpoint ==
    [][/\ (last'.op = "dashboardLogin" /\ last'.outcome = "non302")
            => last'.errs = <<"Signin protocol error">>
       /\ (last'.op = "dashboardLogin" /\ last'.outcome = "302"
             /\ last'.body \in {Str(<<"/","f","o","r","b","i","d","d","e","n","/">>)})
            => last'.errs = <<"Signin failed">>
       /\ endpoints' # endpoints =>
            /\ last'.op = "dashboardLogin" /\ last'.outcome = "302"
            /\ last'.body = Str(<<"/","d">>)
            /\ endpoints' = [endpoints EXCEPT !.dashboard =
                                Str(Url.s \o <<"/","d">>)]
       /\ SigninFailed(last') => endpoints' = endpoints]_vars

\* C32: no operation retries. A login issues at most two requests, a
\* refreshTouchmap one, a search at most two (the touch-map GET of a cold
\* cache, then the search GET), a getAccount or a getStatements one, and a
\* dashboard four, whatever the transport reports.
Completed(c) == calls[c].pc \in {"done", "crashed"}
C32_NoRetry ==
    \A c \in Slots :
        LET n == Len(calls[c].sent)
            op == calls[c].op
        IN /\ op = "login" => n \in {1, 2}
           /\ op = "refreshTouchmap" => calls[c].sent = <<"touch-map">>
           /\ op = "search" =>
                calls[c].sent \in {<<"simple">>, <<"touch-map">>,
                                   <<"touch-map", "simple">>}
           /\ op \in {"getAccount", "getStatements"} => n = 1
           /\ op = "dashboard" =>
                calls[c].sent = <<"GetBillingData", "GetUsageData",
                                  "GetOutageData", "GetAppointmentData">>
C32_Witness ==
    \E c \in Slots :
        /\ calls[c].op = "dashboard" /\ Completed(c)
        /\ calls[c].nErr = 1
        /\ Len(calls[c].sent) = 4

\* C33: if the transport answers every request, every call that has passed
\* its synchronous validation calls its completion callback; no response
\* handler ends with an uncaught exception before it has completed the call.
\* A handler that throws is not run again, so a call that has thrown without
\* having reported anything stays pending for ever.
C33_EveryCallCompletes ==
    \A c \in Slots :
        calls[c].pc = "crashed" => calls[c].nErr + calls[c].nOk > 0

\* C34: in every second POST of a login the token in the Authorization
\* header is the token of the session ID the same request carries in its
\* SessionID header, and of no other session ID, however logins overlap and
\* also when every request options object gets a session ID of its own.
C34_TokenOfOwnSession ==
    \A c \in Slots :
        SecondPostSent(c) =>
            LET sid == calls[c].posts[2].headers.SessionID
            IN /\ sid = calls[c].sids[2]
               /\ \E r \in Tokens :
                     /\ r.config = config /\ r.sessionId = sid
                     /\ r.token.s = TokenSent(c)
               /\ \A r \in Tokens :
                     (r.config = config /\ r.token.s = TokenSent(c))
                        => r.sessionId = sid
C34_Witness ==
    /\ ~Truthy(config.sessionId)
    /\ \E c, d \in Slots :
        /\ SecondPostSent(c) /\ SecondPostSent(d)
        /\ calls[c].pc = "round2" /\ calls[d].pc = "round2"
        /\ calls[c].posts[2].headers.SessionID
             # calls[d].posts[2].headers.SessionID
        /\ TokenSent(c) # TokenSent(d)

\* C35: when logins overlap on one client of the SmartCare classes, the
\* stored AuthToken is absent or is, as a whole, the body of one second
\* response with status 200, never a mixture of two; the step that handles
\* such a response stores its body and no other step of a login changes the
\* token, so that after all logins it is the body that was handled last.
WholeBody(a, body) ==
    /\ DOMAIN a = DOMAIN body
    /\ \A k \in DOMAIN body : a[k] = body[k]
C35_WholeTokenOfLastLogin ==
    [][(variant # "t3services") =>
         (/\ auth' = UNDEF \/ \E body \in LoginBodies : WholeBody(auth', body)
          /\ IF Round2Step(last') /\ last'.outcome = "200"
             THEN WholeBody(auth', last'.body)
             ELSE auth' = auth)]_vars
C35_Witness ==
    /\ variant \in {"smartcare", "index"}
    /\ last.op = "login" /\ last.stage = "round2" /\ last.outcome = "200"
    /\ last.body = NoToken
    /\ WholeBody(auth, NoToken)
    /\ \E d \in Slots \ {last.slot} :
          calls[d].op = "login" /\ calls[d].pc = "round2"

\* C36: dashboard() issues its four requests at once and calls the callback
\* once for every order in which the responses arrive: with the object that
\* maps BillingData, UsageData, OutageData and AppointmentData to the body of
\* the request of that name if all four have status 200, and with an error
\* and no result if a request fails, also when other responses arrive later.
DashboardKeys ==
    << <<"B","i","l","l","i","n","g","D","a","t","a">>,
       <<"U","s","a","g","e","D","a","t","a">>,
       <<"O","u","t","a","g","e","D","a","t","a">>,
       <<"A","p","p","o","i","n","t","m","e","n","t","D","a","t","a">> >>
C36_DashboardCompletesOnce ==
    /\ \A c \in Slots :
        calls[c].op = "dashboard" =>
            /\ Len(calls[c].sent) = 4
            /\ calls[c].nErr + calls[c].nOk <= 1
            /\ calls[c].pc = "done" => calls[c].nErr + calls[c].nOk = 1
            /\ calls[c].nOk = 1 =>
                 \A i \in 1..4 : calls[c].dash[i] = [Data |-> calls[c].sent[i]]
    /\ (last.op = "dashboard" /\ last.oks # <<>>) =>
            /\ Len(last.oks) = 1
            /\ DOMAIN last.oks[1] = {DashboardKeys[i] : i \in 1..4}
            /\ \A i \in 1..4 :
                 last.oks[1][DashboardKeys[i]]
                    = [Data |-> calls[last.slot].sent[i]]
            /\ calls[last.slot].pc = "done"
    /\ (last.op = "dashboard" /\ last.stage = "dash"
          /\ last.outcome # "200" /\ last.errs # <<>>) =>
            /\ last.oks = <<>>
            /\ calls[last.slot].nErr = 1 /\ calls[last.slot].nOk = 0
C36_Witness ==
    /\ last.op = "dashboard" /\ last.stage = "dash"
    /\ last.outcome = "200" /\ last.errs = <<>> /\ last.oks = <<>>
    /\ calls[last.slot].pc = "done"
    /\ calls[last.slot].nErr = 1 /\ calls[last.slot].nOk = 0

\* C37: authentication is monotonic: once isAuthenticated is true on a
\* client of the SmartCare classes it is true after every later step of a
\* login, a refresh, a search and an authenticated call.
C37_AuthenticatedStays ==
    [][(/\ variant # "t3services" /\ last'.op # "dashboardLogin"
        /\ IsAuthenticated(auth))
       => IsAuthenticated(auth')]_vars
\* C37 as amended: isAuthenticated stays true through every step but the one
\* that handles a second login response with status 200, after which it is
\* true exactly if the body of that response has a T3Token that is a string
\* and is not empty
C37_AuthenticatedUntilReplaced ==
    [][(/\ variant # "t3services" /\ last'.op # "dashboardLogin"
        /\ IsAuthenticated(auth))
       => IF Round2Step(last') /\ last'.outcome = "200"
          THEN IsAuthenticated(auth') <=> TokenStored(last'.body)
          ELSE IsAuthenticated(auth')]_vars
C37_Witness ==
    /\ variant = "index"
    /\ Round2Step(last) /\ last.outcome = "non200"
    /\ last.errs = <<"Authentication failed">>
    /\ IsAuthenticated(auth)

\* C38: after a successful refresh the refreshTime entry of the cache is the
\* timestamp of that refresh, whatever the names of the actions in the
\* response are, and a search result is resolved to an Action of the
\* touchmap only, never to the refreshTime value.
C38_RefreshTimeKept ==
    /\ RefreshStored => actions.refreshTime = Date(clock)
    /\ (last.op = "search" /\ last.stage = "simple" /\ last.oks # <<>>
          /\ variant = "smartcare") =>
         \A i \in DOMAIN last.body.Results :
            IsName(last.body.Results[i].Action) =>
               LET resolved == last.oks[1].Results[i].Action
               IN /\ "date" \notin DOMAIN resolved
                  /\ resolved # UNDEF =>
                        resolved.Name = last.body.Results[i].Action.n

\* C39: after a successful refresh, for every touch-map response (one that
\* lists an action name more than once included), the Action object of each
\* menu item is the Action the cache holds under that item's action name.
C39_MenuAgreesWithCache ==
    (RefreshStored /\ variant = "smartcare") =>
        \A i \in DOMAIN menu.items :
            LET item == menu.items[i]
            IN /\ item.Action.Name \in DOMAIN actions
               /\ item.Action = actions[item.Action.Name]
====
